---- MODULE Spec2Model ----
(***************************************************************************)
(* Subnet extraction and DHCP reconciliation of svdleer/li.                *)
(*                                                                         *)
(* Texts are sequences of one-character strings, so that the prefix,       *)
(* suffix, split and replace operations of the code are computed and not   *)
(* assumed.  Python's None is the value None below.                        *)
(***************************************************************************)
EXTENDS Integers, Sequences, FiniteSets, TLC

\* --------------------------------------------------------------------------
\* Bounds of the model
\* --------------------------------------------------------------------------

\* how often the registry may change while one reconcile call is running
MaxRegistryChanges == 1

\* --------------------------------------------------------------------------
\* Python values and string operations
\* --------------------------------------------------------------------------

None == <<"None">>

\* a truth test that takes the empty string for a value
TruthyNotNone(x) == x # None

\* bool(x) of an Optional[str] or a list
Truthy(x) == x # None /\ x # <<>>

Range(s) == {s[i] : i \in 1..Len(s)}

Min(a, b) == IF a < b THEN a ELSE b

Max(a, b) == IF a > b THEN a ELSE b

\* None where the code holds an int or None
NoInt == -1

StartsWith(s, p) == Len(s) >= Len(p) /\ SubSeq(s, 1, Len(p)) = p

EndsWith(s, p) == Len(s) >= Len(p) /\ SubSeq(s, Len(s) - Len(p) + 1, Len(s)) = p

\* str.replace(old, new): every non-overlapping occurrence, left to right
RECURSIVE Replace(_, _, _)
Replace(s, old, new) ==
    IF Len(s) < Len(old) \/ old = <<>> THEN s
    ELSE IF StartsWith(s, old)
         THEN new \o Replace(SubSeq(s, Len(old) + 1, Len(s)), old, new)
         ELSE <<s[1]>> \o Replace(Tail(s), old, new)

\* str.split(c) for a one-character separator
RECURSIVE Split(_, _)
Split(s, c) ==
    IF \A i \in 1..Len(s) : s[i] # c THEN <<s>>
    ELSE LET k == CHOOSE i \in 1..Len(s) : s[i] = c /\ \A j \in 1..(i - 1) : s[j] # c
         IN  <<SubSeq(s, 1, k - 1)>> \o Split(SubSeq(s, k + 1, Len(s)), c)

Digits == <<"0", "1", "2", "3", "4", "5", "6", "7", "8", "9">>

IsDigit(c) == c \in Range(Digits)

\* code points of the characters the model uses, in ASCII order
Alphabet ==
    <<"-", ".", "/", "0", "1", "2", "3", "4", "5", "6", "7", "8", "9", ":",
      "A", "B", "C", "D", "E", "F", "G", "H", "I", "J", "K", "L", "M", "N",
      "O", "P", "Q", "R", "S", "T", "U", "V", "W", "X", "Y", "Z",
      "a", "b", "c", "d", "e", "f", "g", "h", "i", "j", "k", "l", "m", "n",
      "o", "p", "q", "r", "s", "t", "u", "v", "w", "x", "y", "z">>

CharCode(c) == CHOOSE i \in 1..Len(Alphabet) : Alphabet[i] = c

\* str.upper() of one character
Upper(c) ==
    IF c \in Range(Alphabet) /\ CharCode(c) >= CharCode("a")
    THEN Alphabet[CharCode(c) - 26]
    ELSE c

DigitVal(c) == (CHOOSE i \in 1..10 : Digits[i] = c) - 1

\* int(x) succeeds on a non-empty run of digits
IsInt(x) == x # <<>> /\ \A i \in 1..Len(x) : IsDigit(x[i])

RECURSIVE ToInt(_)
ToInt(x) == IF x = <<>> THEN 0 ELSE 10 * ToInt(SubSeq(x, 1, Len(x) - 1)) + DigitVal(x[Len(x)])

\* str(n)
RECURSIVE IntToStr(_)
IntToStr(n) ==
    IF n < 0 THEN <<"-">> \o IntToStr(0 - n)
    ELSE IF n < 10 THEN <<Digits[n + 1]>>
    ELSE IntToStr(n \div 10) \o <<Digits[(n % 10) + 1]>>

\* '.'.join(parts)
RECURSIVE Join(_, _)
Join(parts, c) ==
    IF parts = <<>> THEN <<>>
    ELSE IF Len(parts) = 1 THEN parts[1]
    ELSE parts[1] \o <<c>> \o Join(Tail(parts), c)

RECURSIVE Pow2(_)
Pow2(n) == IF n <= 0 THEN 1 ELSE 2 * Pow2(n - 1)

\* bin(n).count('1')
RECURSIVE PopCount(_)
PopCount(n) == IF n = 0 THEN 0 ELSE (n % 2) + PopCount(n \div 2)

\* a | b
RECURSIVE BitOr(_, _)
BitOr(a, b) ==
    IF a = 0 THEN b
    ELSE IF b = 0 THEN a
    ELSE Max(a % 2, b % 2) + 2 * BitOr(a \div 2, b \div 2)

RECURSIVE SumSeq(_)
SumSeq(s) == IF s = <<>> THEN 0 ELSE Head(s) + SumSeq(Tail(s))

\* a < b in the binary string order
StrLess(a, b) ==
    \E i \in 1..(Min(Len(a), Len(b)) + 1) :
        /\ SubSeq(a, 1, i - 1) = SubSeq(b, 1, i - 1)
        /\ \/ i > Len(a) /\ i <= Len(b)
           \/ i <= Len(a) /\ i <= Len(b) /\ CharCode(a[i]) < CharCode(b[i])

SetToSeq(S) == CHOOSE f \in [1..Cardinality(S) -> S] : Range(f) = S

\* list(a_set): the elements in an order the code does not control
ListsOf(S) == {f \in [1..Cardinality(S) -> S] : Range(f) = S}

\* --------------------------------------------------------------------------
\* Texts of the model
\* --------------------------------------------------------------------------

\* "192.0.2.0/24"
NetP == <<"1", "9", "2", ".", "0", ".", "2", ".", "0", "/", "2", "4">>

\* "198.51.100.0/24"
NetA == <<"1", "9", "8", ".", "5", "1", ".", "1", "0", "0", ".", "0", "/", "2", "4">>

\* "203.0.113.0/24"
NetB == <<"2", "0", "3", ".", "0", ".", "1", "1", "3", ".", "0", "/", "2", "4">>

\* "10.1.0.0/24"
NetPriv == <<"1", "0", ".", "1", ".", "0", ".", "0", "/", "2", "4">>

\* "ZNB-LC0001-CCAP001"
HostE6000 ==
    <<"Z", "N", "B", "-", "L", "C", "0", "0", "0", "1", "-",
      "C", "C", "A", "P", "0", "0", "1">>

\* "RTR-EDGE-01"
HostOther == <<"R", "T", "R", "-", "E", "D", "G", "E", "-", "0", "1">>

\* "SITE-A"
SiteA == <<"S", "I", "T", "E", "-", "A">>

\* "SITE-A-PD"
SiteAPD == SiteA \o <<"-", "P", "D">>

\* "SITE-A-PD-PD"
SiteAPDPD == SiteAPD \o <<"-", "P", "D">>

\* "SITE-B"
SiteB == <<"S", "I", "T", "E", "-", "B">>

\* "X-CCAP101"
HostCasa == <<"X", "-", "C", "C", "A", "P", "1", "0", "1">>

\* "192.0.2.5"
Addr192_0_2_5 == <<"1", "9", "2", ".", "0", ".", "2", ".", "5">>

\* "198.51.100.1"
Addr198_51_100_1 == <<"1", "9", "8", ".", "5", "1", ".", "1", "0", "0", ".", "1">>

\* "10.1.0.1"
Addr10_1_0_1 == <<"1", "0", ".", "1", ".", "0", ".", "1">>

\* "255.255.255.0"
Mask24 == <<"2", "5", "5", ".", "2", "5", "5", ".", "2", "5", "5", ".", "0">>

\* "2001:db8::"
Addr6 == <<"2", "0", "0", "1", ":", "d", "b", "8", ":", ":">>

\* "2001:db8::/40"
Net6 == <<"2", "0", "0", "1", ":", "d", "b", "8", ":", ":", "/", "4", "0">>

\* --------------------------------------------------------------------------
\* dhcp_database.py: classifier
\* --------------------------------------------------------------------------

\* re.match(r'^172\.(1[6-9]|2[0-9]|3[0-1])\.', ip)
Match172(ip) ==
    /\ Len(ip) >= 7
    /\ SubSeq(ip, 1, 4) = <<"1", "7", "2", ".">>
    /\ \/ ip[5] = "1" /\ ip[6] \in {"6", "7", "8", "9"}
       \/ ip[5] = "2" /\ IsDigit(ip[6])
       \/ ip[5] = "3" /\ ip[6] \in {"0", "1"}
    /\ ip[7] = "."

is_public_ipv4(subnet_str) ==
    IF subnet_str = None THEN TRUE
    ELSE LET ip == Split(subnet_str, "/")[1]
         IN  ~ \/ StartsWith(ip, <<"1", "0", ".">>)
               \/ Match172(ip)
               \/ StartsWith(ip, <<"1", "9", "2", ".", "1", "6", "8", ".">>)
               \/ StartsWith(ip, <<"1", "9", "8", ".", "1", "8", ".">>)

\* --------------------------------------------------------------------------
\* subnet_utils.py: the classifier of the cache warmer and the web application
\* --------------------------------------------------------------------------

\* the number of leading octet bits a prefix length keeps in octet k
KeptBits(prefix, k) == Max(0, Min(8, prefix - 8 * (k - 1)))

\* the netmask of a prefix length, as four octets
MaskOf(prefix) == [k \in 1..4 |-> 256 - Pow2(8 - KeptBits(prefix, k))]

\* four octets with the host bits of a prefix length cleared
Masked(octets, prefix) ==
    [k \in 1..4 |-> (octets[k] \div Pow2(8 - KeptBits(prefix, k)))
                       * Pow2(8 - KeptBits(prefix, k))]

\* ipaddress: an octet is one to three ASCII digits without a leading zero
\* and at most 255
IsOctet(x) ==
    /\ IsInt(x)
    /\ Len(x) <= 3
    /\ Len(x) > 1 => x[1] # "0"
    /\ ToInt(x) <= 255

\* ipaddress: a dotted quad
IsDottedQuad(x) ==
    LET parts == Split(x, ".")
    IN  Len(parts) = 4 /\ \A i \in 1..4 : IsOctet(parts[i])

DottedQuad(x) == [k \in 1..4 |-> ToInt(Split(x, ".")[k])]

\* ipaddress: the prefix length of the text after "/": digits up to 32, or
\* a netmask, or a hostmask; NoInt when it is none of them
PrefixLength(x) ==
    IF IsInt(x)
    THEN IF Len(x) <= 9 /\ ToInt(x) <= 32 THEN ToInt(x) ELSE NoInt
    ELSE IF ~IsDottedQuad(x) THEN NoInt
    ELSE LET o == DottedQuad(x)
             inv == [k \in 1..4 |-> 255 - o[k]]
         IN  IF \E n \in 0..32 : MaskOf(n) = o
             THEN CHOOSE n \in 0..32 : MaskOf(n) = o
             ELSE IF \E n \in 0..32 : MaskOf(n) = inv
             THEN CHOOSE n \in 0..32 : MaskOf(n) = inv
             ELSE NoInt

\* ipaddress.IPv4Network(subnet, strict=False): <<>> when it raises
\* ValueError, else the network address and the prefix length
IPv4Network(subnet) ==
    IF subnet = None THEN <<>>
    ELSE LET parts == Split(subnet, "/")
         IN  IF Len(parts) > 2 \/ ~IsDottedQuad(parts[1]) THEN <<>>
             ELSE LET prefix == IF Len(parts) = 2 THEN PrefixLength(parts[2]) ELSE 32
                  IN  IF prefix = NoInt THEN <<>>
                      ELSE << [address |-> Masked(DottedQuad(parts[1]), prefix),
                               prefixlen |-> prefix] >>

\* the networks ipaddress lists as private, reserved and multicast
PrivateNetworks ==
    { [address |-> <<0, 0, 0, 0>>, prefixlen |-> 8],
      [address |-> <<10, 0, 0, 0>>, prefixlen |-> 8],
      [address |-> <<127, 0, 0, 0>>, prefixlen |-> 8],
      [address |-> <<169, 254, 0, 0>>, prefixlen |-> 16],
      [address |-> <<172, 16, 0, 0>>, prefixlen |-> 12],
      [address |-> <<192, 0, 0, 0>>, prefixlen |-> 29],
      [address |-> <<192, 0, 0, 170>>, prefixlen |-> 31],
      [address |-> <<192, 0, 2, 0>>, prefixlen |-> 24],
      [address |-> <<192, 168, 0, 0>>, prefixlen |-> 16],
      [address |-> <<198, 18, 0, 0>>, prefixlen |-> 15],
      [address |-> <<198, 51, 100, 0>>, prefixlen |-> 24],
      [address |-> <<203, 0, 113, 0>>, prefixlen |-> 24],
      [address |-> <<240, 0, 0, 0>>, prefixlen |-> 4],
      [address |-> <<255, 255, 255, 255>>, prefixlen |-> 32] }

MulticastNetwork == [address |-> <<224, 0, 0, 0>>, prefixlen |-> 4]

\* network address and broadcast address of net both lie in within
SubnetOf(net, within) ==
    /\ net.prefixlen >= within.prefixlen
    /\ Masked(net.address, within.prefixlen) = within.address

\* subnet_utils.is_public_ipv4(subnet); is_loopback, is_link_local and
\* is_reserved are networks of the private list
utils_is_public_ipv4(subnet) ==
    LET network == IPv4Network(subnet)
    IN  IF network = <<>> THEN FALSE
        ELSE ~ \/ \E within \in PrivateNetworks : SubnetOf(network[1], within)
               \/ SubnetOf(network[1], MulticastNetwork)

HexDigits == <<"0", "1", "2", "3", "4", "5", "6", "7", "8", "9",
               "a", "b", "c", "d", "e", "f">>

Lower(c) ==
    IF c \in Range(Alphabet) /\ CharCode(c) >= CharCode("A") /\ CharCode(c) <= CharCode("Z")
    THEN Alphabet[CharCode(c) + 26]
    ELSE c

IsHexDigit(c) == Lower(c) \in Range(HexDigits)

HexVal(c) == (CHOOSE i \in 1..16 : HexDigits[i] = Lower(c)) - 1

\* ipaddress: a hextet is one to four hexadecimal digits
IsHextet(x) == x # <<>> /\ Len(x) <= 4 /\ \A i \in 1..Len(x) : IsHexDigit(x[i])

\* int(x, 16)
RECURSIVE HexToInt(_)
HexToInt(x) ==
    IF x = <<>> THEN 0 ELSE 16 * HexToInt(SubSeq(x, 1, Len(x) - 1)) + HexVal(x[Len(x)])

\* ipaddress.IPv6Address(ip_str) for a text without "%" and without an
\* embedded IPv4 address: <<>> when it raises, else the eight hextets
IPv6Address(ip_str) ==
    LET parts == Split(ip_str, ":")
        n == Len(parts)
        skips == {i \in 2..(n - 1) : parts[i] = <<>>}
    IN  IF n < 3 \/ n > 9 \/ Cardinality(skips) > 1 THEN <<>>
        ELSE IF skips = {}
        THEN IF n = 8 /\ \A i \in 1..8 : IsHextet(parts[i])
             THEN << [k \in 1..8 |-> HexToInt(parts[k])] >>
             ELSE <<>>
        ELSE LET skip == CHOOSE i \in skips : TRUE
                 parts_hi == IF parts[1] = <<>> THEN skip - 2 ELSE skip - 1
                 parts_lo == IF parts[n] = <<>> THEN n - skip - 1 ELSE n - skip
                 parts_skipped == 8 - (parts_hi + parts_lo)
             IN  IF \/ parts[1] = <<>> /\ parts_hi # 0
                    \/ parts[n] = <<>> /\ parts_lo # 0
                    \/ parts_skipped < 1
                    \/ \E i \in 1..parts_hi : ~IsHextet(parts[i])
                    \/ \E i \in (n - parts_lo + 1)..n : ~IsHextet(parts[i])
                 THEN <<>>
                 ELSE << [k \in 1..8 |->
                            IF k <= parts_hi THEN HexToInt(parts[k])
                            ELSE IF k <= parts_hi + parts_skipped THEN 0
                            ELSE HexToInt(parts[n - 8 + k])] >>

\* the number of leading bits a prefix length keeps in hextet k
KeptBits16(prefix, k) == Max(0, Min(16, prefix - 16 * (k - 1)))

Pow2_16(n) == IF n = 16 THEN 65536 ELSE Pow2(n)

\* eight hextets with the host bits of a prefix length cleared
Masked16(hextets, prefix) ==
    [k \in 1..8 |-> (hextets[k] \div Pow2_16(16 - KeptBits16(prefix, k)))
                       * Pow2_16(16 - KeptBits16(prefix, k))]

\* ipaddress.IPv6Network(subnet, strict=False): <<>> when it raises
\* ValueError, else the network address and the prefix length
IPv6Network(subnet) ==
    IF subnet = None THEN <<>>
    ELSE LET parts == Split(subnet, "/")
         IN  IF Len(parts) > 2 \/ IPv6Address(parts[1]) = <<>> THEN <<>>
             ELSE IF Len(parts) = 2
                     /\ ~(IsInt(parts[2]) /\ Len(parts[2]) <= 9 /\ ToInt(parts[2]) <= 128)
             THEN <<>>
             ELSE LET prefix == IF Len(parts) = 2 THEN ToInt(parts[2]) ELSE 128
                  IN  << [address |-> Masked16(IPv6Address(parts[1])[1], prefix),
                          prefixlen |-> prefix] >>

\* the last address of a network
broadcast_address(net) ==
    [k \in 1..8 |-> net.address[k] + Pow2_16(16 - KeptBits16(net.prefixlen, k)) - 1]

\* address in within
AddressIn(address, within) == Masked16(address, within.prefixlen) = within.address

\* a::/n for a first hextet a
Net6Of(a, n) == [address |-> <<a, 0, 0, 0, 0, 0, 0, 0>>, prefixlen |-> n]

\* ipaddress: ::1/128, ::/128, ::ffff:0:0/96, 100::/64, 2001::/23,
\* 2001:2::/48, 2001:db8::/32, 2001:10::/28, fc00::/7, fe80::/10
PrivateNetworks6 ==
    { [address |-> <<0, 0, 0, 0, 0, 0, 0, 1>>, prefixlen |-> 128],
      [address |-> <<0, 0, 0, 0, 0, 0, 0, 0>>, prefixlen |-> 128],
      [address |-> <<0, 0, 0, 0, 0, 65535, 0, 0>>, prefixlen |-> 96],
      Net6Of(256, 64),
      Net6Of(8193, 23),
      [address |-> <<8193, 2, 0, 0, 0, 0, 0, 0>>, prefixlen |-> 48],
      [address |-> <<8193, 3512, 0, 0, 0, 0, 0, 0>>, prefixlen |-> 32],
      [address |-> <<8193, 16, 0, 0, 0, 0, 0, 0>>, prefixlen |-> 28],
      Net6Of(64512, 7),
      Net6Of(65152, 10) }

\* ipaddress: ::/8, 100::/8, 200::/7, 400::/6, 800::/5, 1000::/4, 4000::/3,
\* 6000::/3, 8000::/3, a000::/3, c000::/3, e000::/4, f000::/5, f800::/6,
\* fe00::/9
ReservedNetworks6 ==
    { Net6Of(0, 8), Net6Of(256, 8), Net6Of(512, 7), Net6Of(1024, 6),
      Net6Of(2048, 5), Net6Of(4096, 4), Net6Of(16384, 3), Net6Of(24576, 3),
      Net6Of(32768, 3), Net6Of(40960, 3), Net6Of(49152, 3), Net6Of(57344, 4),
      Net6Of(61440, 5), Net6Of(63488, 6), Net6Of(65024, 9) }

\* network.is_X: the network address and the broadcast address both are
BothIn(net, networks) ==
    /\ \E within \in networks : AddressIn(net.address, within)
    /\ \E within \in networks : AddressIn(broadcast_address(net), within)

\* subnet_utils.is_public_ipv6(subnet)
utils_is_public_ipv6(subnet) ==
    LET network == IPv6Network(subnet)
    IN  IF network = <<>> THEN FALSE
        ELSE LET net == network[1]
             IN  ~ \/ \E within \in PrivateNetworks6 :
                          /\ AddressIn(net.address, within)
                          /\ AddressIn(broadcast_address(net), within)
                   \/ BothIn(net, {[address |-> <<0, 0, 0, 0, 0, 0, 0, 1>>,
                                     prefixlen |-> 128]})
                   \/ BothIn(net, {Net6Of(65152, 10)})
                   \/ BothIn(net, {Net6Of(65280, 8)})
                   \/ BothIn(net, ReservedNetworks6)

\* --------------------------------------------------------------------------
\* archive/old_code/netshot_diagnostic.py: the diagnostic that extracts subnets
\* --------------------------------------------------------------------------

\* a normalisation that keeps the host bits
normalize_subnet_keep_host(ip, prefix) == ip \o <<"/">> \o IntToStr(prefix)

\* normalize_subnet(ip, prefix) for an int prefix.  The 32-bit value
\* (o0 << 24) | (o1 << 16) | (o2 << 8) | o3, masked, is computed byte by byte.
normalize_subnet(ip, prefix) ==
    LET parts == Split(ip, ".")
        original == ip \o <<"/">> \o IntToStr(prefix)
    IN  IF \/ \E i \in 1..Len(parts) : ~IsInt(parts[i])
           \/ Len(parts) < 4
           \/ prefix > 32
        THEN original
        ELSE LET o == [i \in 1..4 |-> ToInt(parts[i])]
                 byte == [k \in 1..4 |->
                            IF k = 1 THEN BitOr(BitOr(o[1] % 256, (o[2] \div 256) % 256),
                                                BitOr((o[3] \div 65536) % 256,
                                                      (o[4] \div 16777216) % 256))
                            ELSE IF k = 2 THEN BitOr(o[2] % 256,
                                                     BitOr((o[3] \div 256) % 256,
                                                           (o[4] \div 65536) % 256))
                            ELSE IF k = 3 THEN BitOr(o[3] % 256, (o[4] \div 256) % 256)
                            ELSE o[4] % 256]
                 keep == [k \in 1..4 |-> Max(0, Min(8, prefix - 8 * (k - 1)))]
                 network_octets ==
                     [k \in 1..4 |-> (byte[k] \div Pow2(8 - keep[k])) * Pow2(8 - keep[k])]
             IN  Join([k \in 1..4 |-> IntToStr(network_octets[k])], ".")
                 \o <<"/">> \o IntToStr(prefix)

\* netmask_to_cidr(netmask): the number of set bits, NoInt for None
netmask_to_cidr(netmask) ==
    LET parts == Split(netmask, ".")
    IN  IF \E i \in 1..Len(parts) : ~IsInt(parts[i])
        THEN NoInt
        ELSE SumSeq([i \in 1..Len(parts) |-> PopCount(ToInt(parts[i]))])

\* is_public_ipv4(ip) of the diagnostic
diag_is_public_ipv4(ip) ==
    ~ \/ StartsWith(ip, <<"1", "0", ".">>)
      \/ Match172(ip)
      \/ StartsWith(ip, <<"1", "9", "2", ".", "1", "6", "8", ".">>)
      \/ StartsWith(ip, <<"1", "9", "8", ".", "1", "8", ".">>)

\* a test that forgets ipv6.lower()
is_public_ipv6_case_sensitive(ipv6) ==
    ~ \/ StartsWith(ipv6, <<"f", "e", "8", "0", ":">>)
      \/ StartsWith(ipv6, <<"f", "c", "0", "0", ":">>)
      \/ StartsWith(ipv6, <<"f", "d", "0", "0", ":">>)

\* is_public_ipv6(ipv6)
is_public_ipv6(ipv6) ==
    LET ipv6_lower == [i \in 1..Len(ipv6) |->
                         IF ipv6[i] \in Range(Alphabet)
                            /\ CharCode(ipv6[i]) >= CharCode("A")
                            /\ CharCode(ipv6[i]) <= CharCode("Z")
                         THEN Alphabet[CharCode(ipv6[i]) + 26]
                         ELSE ipv6[i]]
    IN  ~ \/ StartsWith(ipv6_lower, <<"f", "e", "8", "0", ":">>)
          \/ StartsWith(ipv6_lower, <<"f", "c", "0", "0", ":">>)
          \/ StartsWith(ipv6_lower, <<"f", "d", "0", "0", ":">>)

\* A configuration is a sequence of lines, each ended by a newline.  A line is
\* a record: kind says which command it is, the other fields hold its tokens.
\*   "e6000_ipv4"  configure interface cable-mac 1.0 ip address <ip> <mask> [secondary]
\*   "e6000_ipv6"  configure interface cable-mac 1.0 ipv6 address <ip>/<prefix>
\*   "interface"   interface <name>            (at the start of the line)
\*   "ipv4"        <indent>ip address <ip> <mask> [secondary]
\*   "ipv6"        <indent>ipv6 address <ip>/<prefix>
\*   "bang"        !
\*   "other"       any other command
Line(kind, name, ip, mask, secondary) ==
    [kind |-> kind, name |-> name, ip |-> ip, mask |-> mask, secondary |-> secondary]

\* the lines of a text that r'ip address (\d+\.\d+\.\d+\.\d+)\s+(\d+\.\d+\.\d+\.\d+)(\s+secondary)?'
\* matches: the pattern is not anchored, so it also matches in an E6000 line
IPv4Matches(text) == SelectSeq(text, LAMBDA l : l.kind \in {"ipv4", "e6000_ipv4"})

\* the lines r'ipv6 address ([0-9a-fA-F:]+)/(\d+)' matches
IPv6Matches(text) == SelectSeq(text, LAMBDA l : l.kind \in {"ipv6", "e6000_ipv6"})

\* the loop body of extract_ipv4_subnets, and of the E6000 branch of diagnose
RECURSIVE ExtractIPv4Loop(_, _)
ExtractIPv4Loop(matches, res) ==
    IF matches = <<>> THEN res
    ELSE LET m == Head(matches)
             cidr_prefix == netmask_to_cidr(m.mask)
         IN  IF cidr_prefix # NoInt /\ cidr_prefix # 0
             THEN LET subnet == normalize_subnet(m.ip, cidr_prefix)
                      r1 == IF ~m.secondary /\ res.primary_subnet = None
                            THEN [res EXCEPT !.primary_subnet = subnet]
                            ELSE res
                      r2 == IF diag_is_public_ipv4(m.ip)
                            THEN [r1 EXCEPT !.ipv4_subnets = Append(@, subnet)]
                            ELSE r1
                  IN  ExtractIPv4Loop(Tail(matches), r2)
             ELSE ExtractIPv4Loop(Tail(matches), res)

\* the loop body of extract_ipv6_subnets, and of the E6000 branch of diagnose;
\* m.mask holds the prefix length of an IPv6 line
RECURSIVE ExtractIPv6Loop(_, _)
ExtractIPv6Loop(matches, res) ==
    IF matches = <<>> THEN res
    ELSE LET m == Head(matches)
             prefix == IF m.mask = <<"5", "6">> THEN <<"4", "0">> ELSE m.mask
         IN  IF is_public_ipv6(m.ip)
             THEN ExtractIPv6Loop(Tail(matches),
                      [res EXCEPT !.ipv6_subnets = Append(@, m.ip \o <<"/">> \o prefix)])
             ELSE ExtractIPv6Loop(Tail(matches), res)

extract_ipv4_subnets(text, res) == ExtractIPv4Loop(IPv4Matches(text), res)

\* an extraction that keeps the prefix length 56
extract_ipv6_subnets_keep56(text, res) ==
    LET public == SelectSeq(IPv6Matches(text), LAMBDA m : is_public_ipv6(m.ip))
    IN  [res EXCEPT !.ipv6_subnets =
             @ \o [i \in 1..Len(public) |-> public[i].ip \o <<"/">> \o public[i].mask]]

extract_ipv6_subnets(text, res) == ExtractIPv6Loop(IPv6Matches(text), res)

\* the loop of the E6000 branch over the matches of
\* r'configure interface cable-mac 1\.0 ip address (\d+\.\d+\.\d+\.\d+)\s+(\d+\.\d+\.\d+\.\d+)(\s+secondary)?'
RECURSIVE E6000IPv4Loop(_, _)
E6000IPv4Loop(matches, res) ==
    IF matches = <<>> THEN res
    ELSE LET m == Head(matches)
             cidr_prefix == netmask_to_cidr(m.mask)
         IN  IF cidr_prefix # NoInt /\ cidr_prefix # 0
             THEN LET subnet == normalize_subnet(m.ip, cidr_prefix)
                      r1 == IF ~m.secondary /\ res.primary_subnet = None
                            THEN [res EXCEPT !.primary_subnet = subnet]
                            ELSE res
                      r2 == IF diag_is_public_ipv4(m.ip)
                            THEN [r1 EXCEPT !.ipv4_subnets = Append(@, subnet)]
                            ELSE r1
                  IN  E6000IPv4Loop(Tail(matches), r2)
             ELSE E6000IPv4Loop(Tail(matches), res)

\* the loop of the E6000 branch over the matches of
\* r'configure interface cable-mac 1\.0 ipv6 address ([0-9a-fA-F:]+)/(\d+)'
RECURSIVE E6000IPv6Loop(_, _)
E6000IPv6Loop(matches, res) ==
    IF matches = <<>> THEN res
    ELSE LET m == Head(matches)
             prefix == IF m.mask = <<"5", "6">> THEN <<"4", "0">> ELSE m.mask
         IN  IF is_public_ipv6(m.ip)
             THEN E6000IPv6Loop(Tail(matches),
                      [res EXCEPT !.ipv6_subnets = Append(@, m.ip \o <<"/">> \o prefix)])
             ELSE E6000IPv6Loop(Tail(matches), res)

\* "ip-bundle 1"
IpBundle1 == <<"i", "p", "-", "b", "u", "n", "d", "l", "e", " ", "1">>

\* "Bundle1"
Bundle1 == <<"B", "u", "n", "d", "l", "e", "1">>

\* The block a pattern r'interface <name>...(?=...)' finds in a configuration:
\* it starts at the first line "interface <name>" (exact = the pattern asks
\* for white space after the name; otherwise any name that begins with it)
\* and ends before the first later interface line or bare "!" or at the end
\* of the text.  A pattern whose \s+ has consumed the newline of the first
\* line and whose lookahead starts with \n cannot end at the line right after
\* the first one (skip = 1).
FindBlock(config, name, exact, skip) ==
    LET starts == {i \in 1..Len(config) :
                     /\ config[i].kind = "interface"
                     /\ IF exact THEN config[i].name = name
                                 ELSE StartsWith(config[i].name, name)}
    IN  IF starts = {} THEN [found |-> FALSE, lines |-> <<>>]
        ELSE LET i == CHOOSE x \in starts : \A y \in starts : x <= y
                 ends == {j \in (i + 1 + skip)..Len(config) :
                            config[j].kind \in {"interface", "bang"}}
                 last == IF ends = {} THEN Len(config)
                         ELSE (CHOOSE x \in ends : \A y \in ends : x <= y) - 1
             IN  [found |-> TRUE, lines |-> SubSeq(config, i + 1, last)]

\* for pattern in patterns: search, extract, stop at the first pattern that
\* has yielded a subnet
RECURSIVE PatternLoop(_, _)
PatternLoop(blocks, res) ==
    IF blocks = <<>> THEN res
    ELSE IF Head(blocks).found
         THEN LET r == extract_ipv6_subnets(Head(blocks).lines,
                           extract_ipv4_subnets(Head(blocks).lines, res))
              IN  IF r.ipv4_subnets # <<>> \/ r.ipv6_subnets # <<>>
                  THEN r
                  ELSE PatternLoop(Tail(blocks), r)
         ELSE PatternLoop(Tail(blocks), res)

\* re.match(r'^.*<pattern>.*$', device_name, re.IGNORECASE); in a pattern
\* "#" stands for \d
MatchesAt(name, i, pattern) ==
    /\ i + Len(pattern) - 1 <= Len(name)
    /\ \A j \in 1..Len(pattern) :
          IF pattern[j] = "#" THEN IsDigit(name[i + j - 1])
          ELSE Upper(name[i + j - 1]) = pattern[j]

Contains(name, pattern) == \E i \in 1..Len(name) : MatchesAt(name, i, pattern)

\* "unknown"
Unknown == <<"u", "n", "k", "n", "o", "w", "n">>

\* a selection that tries the E6000 rule before the Casa rule
DetectVendor_e6000_first(device_name) ==
    IF \/ Contains(device_name, <<"C", "C", "A", "P", "0", "#", "#">>)
       \/ Contains(device_name, <<"D", "B", "R", "#", "#">>)
    THEN [vendor |-> "Commscope E6000", interface |-> "cable-mac 1.0"]
    ELSE IF \/ Contains(device_name, <<"C", "C", "A", "P", "1", "#", "#">>)
            \/ Contains(device_name, <<"C", "B", "R", "#", "#">>)
    THEN [vendor |-> "Casa 100G", interface |-> "ip-bundle 1"]
    ELSE IF Contains(device_name, <<"C", "C", "A", "P", "V", "#", "#", "#">>)
    THEN [vendor |-> "Commscope EVO", interface |-> "ip-bundle 1"]
    ELSE [vendor |-> "Cisco IOS/IOS-XE", interface |-> "Bundle1"]

\* lines 111-127: vendor and interface from the hostname
DetectVendor(device_name) ==
    IF \/ Contains(device_name, <<"C", "C", "A", "P", "1", "#", "#">>)
       \/ Contains(device_name, <<"C", "B", "R", "#", "#">>)
    THEN [vendor |-> "Casa 100G", interface |-> "ip-bundle 1"]
    ELSE IF Contains(device_name, <<"C", "C", "A", "P", "V", "#", "#", "#">>)
    THEN [vendor |-> "Commscope EVO", interface |-> "ip-bundle 1"]
    ELSE IF \/ Contains(device_name, <<"C", "C", "A", "P", "0", "#", "#">>)
            \/ Contains(device_name, <<"D", "B", "R", "#", "#">>)
    THEN [vendor |-> "Commscope E6000", interface |-> "cable-mac 1.0"]
    ELSE [vendor |-> "Cisco IOS/IOS-XE", interface |-> "Bundle1"]

\* a diagnostic that reports found without looking at its lists
diagnose_found_always(device) ==
    LET device_name == IF Truthy(device.name) THEN device.name ELSE Unknown
        v == DetectVendor(device_name)
    IN  [ device_name |-> device_name, vendor |-> v.vendor, interface |-> v.interface,
          found |-> TRUE, ipv4_subnets |-> <<>>, ipv6_subnets |-> <<>>,
          primary_subnet |-> None ]

\* diagnose(cli, device, diagnostic): the dictionary handed to diagnostic.set.
\* A configuration that is missing, None or '' is the empty sequence.
diagnose(device) ==
    LET device_name == IF Truthy(device.name) THEN device.name ELSE Unknown
        config == IF device.runningConfig # <<>> THEN device.runningConfig
                  ELSE IF device.currentConfig # <<>> THEN device.currentConfig
                  ELSE <<>>
        v == DetectVendor(device_name)
        res == [ device_name |-> device_name,
                 vendor |-> v.vendor,
                 interface |-> v.interface,
                 found |-> FALSE,
                 ipv4_subnets |-> <<>>,
                 ipv6_subnets |-> <<>>,
                 primary_subnet |-> None ]
        parsed ==
            IF v.vendor = "Commscope E6000"
            THEN E6000IPv6Loop(SelectSeq(config, LAMBDA l : l.kind = "e6000_ipv6"),
                     E6000IPv4Loop(SelectSeq(config, LAMBDA l : l.kind = "e6000_ipv4"), res))
            ELSE IF v.interface = "ip-bundle 1"
            THEN PatternLoop(<< FindBlock(config, IpBundle1, TRUE, 1),
                                FindBlock(config, IpBundle1, TRUE, 0),
                                FindBlock(config, IpBundle1, FALSE, 0) >>, res)
            ELSE PatternLoop(<< FindBlock(config, Bundle1, TRUE, 1),
                                FindBlock(config, Bundle1, FALSE, 0) >>, res)
    IN  IF config = <<>> THEN res
        ELSE [parsed EXCEPT !.found = parsed.ipv4_subnets # <<>> \/ parsed.ipv6_subnets # <<>>]

\* --------------------------------------------------------------------------
\* The DHCP registry (tables scopesnew and ipv6scopesnew) as the code sees it
\* --------------------------------------------------------------------------

\* rows of scopesnew that come and go
ScopeRows ==
    { [scope |-> NetP, primscope |-> NetP],
      [scope |-> NetA, primscope |-> NetP] }

\* a private scope of the primary and a row filed under another primary,
\* always present
OtherScopeRows ==
    { [scope |-> NetPriv, primscope |-> NetP],
      [scope |-> NetB, primscope |-> NetB] }

\* rows of ipv6scopesnew that come and go
PrefixRows ==
    { [prefixname |-> SiteA, hostname |-> HostE6000],
      [prefixname |-> SiteAPD, hostname |-> HostE6000],
      [prefixname |-> SiteAPDPD, hostname |-> HostE6000] }

\* a row of another host, always present
OtherPrefixRows == { [prefixname |-> SiteB, hostname |-> HostOther] }

\* the scenario device: "ZNB-LC0001-CCAP001" with the single line
\* configure interface cable-mac 1.0 ip address 192.0.2.5 255.255.255.0
ScenarioDevice ==
    [ name |-> HostE6000,
      runningConfig |-> << Line("e6000_ipv4", <<>>, Addr192_0_2_5, Mask24, FALSE) >>,
      currentConfig |-> <<>> ]

\* the devices diagnose is run on
Devices ==
    { ScenarioDevice,
      [ name |-> HostE6000,
        runningConfig |-> <<>>,
        currentConfig |-> << Line("e6000_ipv4", <<>>, Addr10_1_0_1, Mask24, FALSE),
                             Line("e6000_ipv4", <<>>, Addr198_51_100_1, Mask24, TRUE),
                             Line("e6000_ipv6", <<>>, Addr6, <<"5", "6">>, FALSE) >> ],
      [ name |-> HostE6000, runningConfig |-> <<>>, currentConfig |-> <<>> ],
      [ name |-> HostCasa,
        runningConfig |-> << Line("interface", IpBundle1, <<>>, <<>>, FALSE),
                             Line("ipv4", <<>>, Addr192_0_2_5, Mask24, FALSE),
                             Line("ipv4", <<>>, Addr198_51_100_1, Mask24, TRUE),
                             Line("bang", <<>>, <<>>, <<>>, FALSE) >>,
        currentConfig |-> <<>> ],
      [ name |-> None,
        runningConfig |-> << Line("interface", Bundle1, <<>>, <<>>, FALSE),
                             Line("ipv4", <<>>, Addr198_51_100_1, Mask24, TRUE),
                             Line("ipv6", <<>>, Addr6, <<"5", "6">>, FALSE) >>,
        currentConfig |-> <<>> ] }

\* the arguments validate_device_dhcp is called with
DeviceNames == {HostE6000}

PrimarySubnets == {None, <<>>, NetP}

PublicIPv4Lists == { <<>>, <<NetP, NetA>>, <<NetB, NetB>> }

PublicIPv6Lists == { <<SiteAPD>>, <<Net6, SiteA>> }

VARIABLES
    registry,               \* the DHCP database: rows and reachability
    connection,             \* DHCPDatabase.connection: "closed" (None) or "open"
    pc,                     \* position of validate_device_dhcp
    device_name,            \* argument
    primary_subnet,         \* argument
    public_ipv4_subnets,    \* argument
    public_ipv6_subnets,    \* argument
    dhcp_scopes,            \* rows of the first IPv4 query
    dhcp_ipv6_scopes,       \* rows of the first IPv6 query
    dhcp_scopes_retry,      \* rows of the retried IPv4 query
    dhcp_ipv6_scopes_retry, \* rows of the retried IPv6 query
    scope_count,            \* count of the first round
    retry_count,            \* count of the retry round, -1 before it
    result,                 \* the dictionary being built and returned
    seen,                   \* history: the registry at each query of the call
    pauses,                 \* history: number of time.sleep calls of the call
    changes,                \* history: registry changes during the call
    device,                 \* the device handed to diagnose: <<>> or <<device>>
    diagnostic,             \* what diagnose handed to diagnostic.set: <<>> or <<dict>>
    prev,                   \* history: the result of the preceding call
    calls,                  \* history: calls made with the present arguments
    batch,                  \* one run of a cache warmer: position, inventory, counts
    eval,                   \* the last call of a library function: arguments and value
    request,                \* one call of NetshotAPI._make_request: position, attempts
    cache,                  \* the cache directory: its files, and the clock
    threads                 \* the threads that use the cache directory: position, locals

vars ==
    << registry, connection, pc, device_name, primary_subnet,
       public_ipv4_subnets, public_ipv6_subnets, dhcp_scopes, dhcp_ipv6_scopes,
       dhcp_scopes_retry, dhcp_ipv6_scopes_retry, scope_count, retry_count,
       result, seen, pauses, changes, device, diagnostic, prev, calls, batch,
       eval, request, cache, threads >>

\* no call of _make_request is in progress
NoRequest == [pc |-> "idle"]

\* an empty cache directory at time 0
NoCache == [files |-> {}, meta |-> {}, locks |-> {}, now |-> 0, written |-> {}]

\* the variables a call of _make_request leaves alone, besides reconcileVars
otherVars_but_request == << device, diagnostic, prev, calls, batch, eval, cache, threads >>

\* the variables no step of validate_device_dhcp reads or writes
otherVars == << device, diagnostic, prev, calls, batch, eval, request, cache, threads >>

\* the variables of validate_device_dhcp and of the registry
reconcileVars ==
    << registry, connection, pc, device_name, primary_subnet, public_ipv4_subnets,
       public_ipv6_subnets, dhcp_scopes, dhcp_ipv6_scopes, dhcp_scopes_retry,
       dhcp_ipv6_scopes_retry, scope_count, retry_count, result, seen, pauses,
       changes >>

\* --------------------------------------------------------------------------
\* calls of the library functions
\* --------------------------------------------------------------------------

\* before any call
NoEval == [fn |-> "none"]

\* a.b.c.d
Dotted(a, b, c, d) == Join(<<IntToStr(a), IntToStr(b), IntToStr(c), IntToStr(d)>>, ".")

\* well-formed IPv4 addresses inside, at the edges of and outside the
\* private and benchmarking ranges, alone and in CIDR notation
IPv4Addresses ==
    { Dotted(a, b, c, d) : a \in {9, 10, 11, 172, 192, 198},
                           b \in {0, 15, 16, 18, 19, 20, 31, 32, 51, 168},
                           c \in {0, 100}, d \in {0, 1} }

IPv4Texts == IPv4Addresses \cup { a \o <<"/", "2", "4">> : a \in IPv4Addresses }

\* texts that are no IPv4 address or CIDR, and None
MalformedIPv4 ==
    { None,
      <<>>,
      <<"a", "b", "c">>,
      <<"8", ".", "8", ".", "8">>,
      <<"1", "0", ".", "1", ".", "2">>,
      <<"1", "0", ".", "a", "b", "c">>,
      <<"1", "9", "2", ".", "1", "6", "8", ".", "1">>,
      <<"8", ".", "8", ".", "8", ".", "8", ".", "8">>,
      <<"2", "5", "6", ".", "1", ".", "1", ".", "1">>,
      <<"8", ".", "8", ".", "8", ".", "8", "/", "3", "3">>,
      <<"8", ".", "8", ".", "8", ".", "8", "/", "x">> }

\* the three is_public_ipv4 functions applied to one argument; the one of
\* the diagnostic has no try and raises AttributeError on None
ClassifyIPv4 ==
    /\ eval = NoEval
    /\ \E t \in IPv4Texts \cup MalformedIPv4 :
          eval' = [fn |-> "is_public_ipv4",
                   subnet |-> t,
                   dhcp_database |-> is_public_ipv4(t),
                   subnet_utils |-> utils_is_public_ipv4(t),
                   netshot_diagnostic |-> IF t = None THEN FALSE
                                          ELSE diag_is_public_ipv4(t),
                   raised |-> IF t = None THEN {"netshot_diagnostic"} ELSE {}]
    /\ UNCHANGED << reconcileVars, device, diagnostic, prev, calls, batch,
                    request, cache, threads >>

\* the test of NetshotAPI._parse_lawful_interception on the address part
\* of an IPv6 token (netshot_api.py lines 903-906)
li_is_public_ipv6(ip) ==
    LET ip_lower == [i \in 1..Len(ip) |-> Lower(ip[i])]
    IN  ~ \/ StartsWith(ip_lower, <<"f", "e", "8", "0", ":">>)
          \/ StartsWith(ip_lower, <<"f", "c", "0", "0", ":">>)
          \/ StartsWith(ip_lower, <<"f", "d", "0", "0", ":">>)

\* first hextets: the three prefixes in both cases, their neighbours,
\* shorter and longer ones, and global ones
FirstHextets ==
    { <<"f", "e", "8", "0">>,
      <<"F", "E", "8", "0">>,
      <<"f", "c", "0", "0">>,
      <<"F", "d", "0", "0">>,
      <<"f", "d", "1", "2">>,
      <<"f", "e", "8", "1">>,
      <<"2", "0", "0", "1">>,
      <<"2", "a", "0", "2">>,
      <<"f", "f", "0", "2">>,
      <<"f", "e", "8">>,
      <<"f", "e", "8", "0", "0">>,
      <<"3", "f", "f", "f">> }

\* what follows the first hextet
AfterFirstHextet ==
    { <<":", ":">>,
      <<":", ":", "1">>,
      <<":", "d", "b", "8", ":", ":">>,
      <<":", "a", "4", "0", "0", ":", ":">> }

IPv6Addresses == { a \o b : a \in FirstHextets, b \in AfterFirstHextet }

IPv6Texts ==
    IPv6Addresses \cup { a \o p : a \in IPv6Addresses,
                                   p \in {<<"/", "4", "0">>, <<"/", "6", "4">>} }

\* the three IPv6 tests applied to one argument
ClassifyIPv6 ==
    /\ eval = NoEval
    /\ \E t \in IPv6Texts :
          eval' = [fn |-> "is_public_ipv6",
                   subnet |-> t,
                   netshot_diagnostic |-> is_public_ipv6(t),
                   netshot_api |-> li_is_public_ipv6(Split(t, "/")[1]),
                   subnet_utils |-> utils_is_public_ipv6(t)]
    /\ UNCHANGED << reconcileVars, device, diagnostic, prev, calls, batch,
                    request, cache, threads >>

\* NetshotAPI._normalize_subnet(subnet_str) for a text without ":", which
\* ipaddress.ip_network can only read as an IPv4 network: str(network), or
\* subnet_str when ip_network raises
api_normalize_subnet(subnet_str) ==
    LET network == IPv4Network(subnet_str)
    IN  IF network = <<>> THEN subnet_str
        ELSE Join([k \in 1..4 |-> IntToStr(network[1].address[k])], ".")
             \o <<"/">> \o IntToStr(network[1].prefixlen)

\* host addresses: four octets 0..255
HostAddresses ==
    { Dotted(a, b, c, d) : a \in {10, 172, 192, 255}, b \in {0, 31, 254},
                           c \in {0, 216, 255}, d \in {0, 1, 129, 255} }

\* netmasks of the prefix lengths 0, 8, 12, 23, 24, 25, 30 and 32, and one
\* mask whose set bits are not contiguous
Netmasks ==
    { Dotted(0, 0, 0, 0), Dotted(255, 0, 0, 0), Dotted(255, 240, 0, 0),
      Dotted(255, 255, 254, 0), Dotted(255, 255, 255, 0),
      Dotted(255, 255, 255, 128), Dotted(255, 255, 255, 252),
      Dotted(255, 255, 255, 255), Dotted(255, 0, 255, 0) }

\* addresses with three or five octets, a non-numeric octet, an octet
\* above 255
MalformedAddresses ==
    { <<"1", "0", ".", "1", ".", "2">>,
      <<"1", "0", ".", "1", ".", "2", ".", "3", ".", "4">>,
      <<"1", "0", ".", "x", ".", "2", ".", "3">>,
      <<"3", "0", "0", ".", "1", ".", "2", ".", "3">>,
      <<"1", "0", ".", "1", ".", "2", ".", "2", "5", "6">> }

\* masks of 40 set bits, with an octet above 255, with a non-numeric octet
MalformedNetmasks ==
    { <<"2", "5", "5", ".", "2", "5", "5", ".", "2", "5", "5", ".", "2", "5", "5", ".", "2", "5", "5">>,
      <<"2", "5", "6", ".", "0", ".", "0", ".", "0">>,
      <<"2", "5", "5", ".", "2", "5", "5", ".", "x", ".", "0">> }

\* `cidr_prefix = netmask_to_cidr(mask)`, `normalize_subnet(ip, cidr_prefix)`
\* as the extraction calls them, then _normalize_subnet of NetshotAPI on the
\* text the diagnostic has stored and on ip/cidr_prefix, and
\* normalize_subnet once more on the two parts of its own answer.
\* int(None) raises TypeError inside the try: the answer is ip/None.
NormalizeSubnet ==
    /\ eval = NoEval
    /\ \E ip \in HostAddresses \cup MalformedAddresses,
          mask \in Netmasks \cup MalformedNetmasks :
          \E cidr_prefix \in {netmask_to_cidr(mask)} :
          \E subnet \in {IF cidr_prefix = NoInt THEN ip \o <<"/">> \o None
                          ELSE normalize_subnet(ip, cidr_prefix)} :
             eval' = [fn |-> "normalize_subnet",
                      ip |-> ip,
                      mask |-> mask,
                      cidr_prefix |-> cidr_prefix,
                      netshot_diagnostic |-> subnet,
                      netshot_api |->
                          api_normalize_subnet(
                              ip \o <<"/">> \o (IF cidr_prefix = NoInt THEN None
                                                 ELSE IntToStr(cidr_prefix))),
                      stored |-> api_normalize_subnet(subnet),
                      again |->
                          IF cidr_prefix = NoInt THEN subnet
                          ELSE normalize_subnet(Split(subnet, "/")[1], cidr_prefix)]
    /\ UNCHANGED << reconcileVars, device, diagnostic, prev, calls, batch,
                    request, cache, threads >>

\* the part of a hostname that names the platform: every rule in both
\* cases, tokens one digit short, and names no rule knows
PlatformTokens ==
    { <<"C", "C", "A", "P", "1", "0", "5">>,
      <<"c", "c", "a", "p", "1", "0", "5">>,
      <<"C", "B", "R", "1", "2">>,
      <<"c", "B", "r", "1", "2">>,
      <<"C", "C", "A", "P", "V", "1", "2", "3">>,
      <<"c", "c", "a", "p", "v", "1", "2", "3">>,
      <<"C", "C", "A", "P", "0", "0", "1">>,
      <<"C", "c", "a", "p", "0", "0", "1">>,
      <<"D", "B", "R", "0", "7">>,
      <<"d", "b", "r", "0", "7">>,
      <<"C", "C", "A", "P", "1", "5">>,
      <<"C", "C", "A", "P", "V", "1", "2">>,
      <<"C", "B", "R", "1">>,
      <<"D", "B", "R", "7">>,
      <<"C", "C", "A", "P", "2", "0", "5">>,
      <<"R", "T", "R", "-", "E", "D", "G", "E", "-", "0", "1">> }

\* hostnames: a site before the token or not, and after it nothing, a token
\* of a later or an earlier rule, or one more digit
Hostnames ==
    { a \o b \o c : a \in {<<>>, <<"Z", "N", "B", "-">>},
                    b \in PlatformTokens,
                    c \in {<<>>, <<"-", "D", "B", "R", "0", "7">>, <<"-", "c", "b", "r", "1", "2">>, <<"9">>} }

\* diagnose on a device that has a name and no configuration: the vendor
\* and the interface are chosen from the name before the configuration is
\* looked at
SelectDialect ==
    /\ eval = NoEval
    /\ \E n \in Hostnames :
          eval' = [fn |-> "diagnose",
                   device_name |-> n,
                   result |-> diagnose([name |-> n, runningConfig |-> <<>>,
                                        currentConfig |-> <<>>])]
    /\ UNCHANGED << reconcileVars, device, diagnostic, prev, calls, batch,
                    request, cache, threads >>

\* the most `ip address` lines a configuration of ExtractionDevices holds
MaxAddressLines == 3

\* 198.19.0.1, in the upper half of 198.18.0.0/15
Addr198_19_0_1 == <<"1", "9", "8", ".", "1", "9", ".", "0", ".", "1">>

\* `ip address` lines of one kind: a private, a public and a benchmarking
\* address, each primary or secondary, and a line whose mask has no set bit
AddressLines(kind) ==
    { Line(kind, <<>>, a, Mask24, sec) :
          a \in {Addr10_1_0_1, Addr198_51_100_1, Addr198_19_0_1}, sec \in BOOLEAN }
    \cup { Line(kind, <<>>, Addr198_51_100_1, Dotted(0, 0, 0, 0), FALSE) }

\* one to MaxAddressLines lines of one kind, in any order
AddressTexts(kind) ==
    UNION { [1..n -> AddressLines(kind)] : n \in 1..MaxAddressLines }

\* an E6000 with `configure interface cable-mac 1.0 ip address` lines and a
\* Casa with the lines inside its `interface ip-bundle 1` block
ExtractionDevices ==
    { [name |-> HostE6000, runningConfig |-> ls, currentConfig |-> <<>>] :
          ls \in AddressTexts("e6000_ipv4") }
    \cup
    { [name |-> HostCasa,
       runningConfig |-> << Line("interface", IpBundle1, <<>>, <<>>, FALSE) >> \o ls
                            \o << Line("bang", <<>>, <<>>, <<>>, FALSE) >>,
       currentConfig |-> <<>>] :
          ls \in AddressTexts("ipv4") }

\* diagnose on a device whose configuration holds address lines
ExtractSubnets ==
    /\ eval = NoEval
    /\ \E d \in ExtractionDevices :
          eval' = [fn |-> "extract_ipv4_subnets", device |-> d, result |-> diagnose(d)]
    /\ UNCHANGED << reconcileVars, device, diagnostic, prev, calls, batch,
                    request, cache, threads >>

\* `ipv6 address` lines of one kind: a global and a link-local address
\* with the prefix lengths 56, 40 and 64
IPv6AddressLines(kind) ==
    { Line(kind, <<>>, a, p, FALSE) :
          a \in {Addr6, <<"f", "e", "8", "0", ":", ":", "1">>},
          p \in {<<"5", "6">>, <<"4", "0">>, <<"6", "4">>} }

\* an E6000 with `configure interface cable-mac 1.0 ipv6 address` lines and
\* a Casa with the lines inside its `interface ip-bundle 1` block, one to
\* MaxAddressLines lines each
IPv6ExtractionDevices ==
    { [name |-> HostE6000, runningConfig |-> ls, currentConfig |-> <<>>] :
          ls \in UNION { [1..n -> IPv6AddressLines("e6000_ipv6")] :
                            n \in 1..MaxAddressLines } }
    \cup
    { [name |-> HostCasa,
       runningConfig |-> << Line("interface", IpBundle1, <<>>, <<>>, FALSE) >> \o ls
                            \o << Line("bang", <<>>, <<>>, <<>>, FALSE) >>,
       currentConfig |-> <<>>] :
          ls \in UNION { [1..n -> IPv6AddressLines("ipv6")] :
                            n \in 1..MaxAddressLines } }

\* diagnose on a device whose configuration holds IPv6 address lines
ExtractIPv6Subnets ==
    /\ eval = NoEval
    /\ \E d \in IPv6ExtractionDevices :
          eval' = [fn |-> "extract_ipv6_subnets", device |-> d, result |-> diagnose(d)]
    /\ UNCHANGED << reconcileVars, device, diagnostic, prev, calls, batch,
                    request, cache, threads >>

\* the blocks of a configuration for a dialect whose interface is `name`:
\* the interface itself or the one whose name has one digit more, holding
\* no address line, a public one, another public one or a private one, and
\* closed by a bare "!"
InterfaceBlocks(name) ==
    { << Line("interface", n, <<>>, <<>>, FALSE) >> \o ls
         \o << Line("bang", <<>>, <<>>, <<>>, FALSE) >> :
          n \in {name, name \o <<"0">>},
          ls \in { <<>> } \cup
                 { << Line("ipv4", <<>>, a, Mask24, FALSE) >> :
                       a \in {Addr198_51_100_1, Addr192_0_2_5, Addr10_1_0_1} } }

\* a Casa and a generic IOS device whose configuration is one block or two
BlockDevices ==
    { [name |-> h.name, runningConfig |-> c, currentConfig |-> <<>>] :
          h \in { [name |-> HostCasa, interface |-> IpBundle1],
                  [name |-> HostOther, interface |-> Bundle1] },
          c \in UNION { InterfaceBlocks(IpBundle1) \cup InterfaceBlocks(Bundle1),
                        { a \o b : a \in InterfaceBlocks(IpBundle1),
                                   b \in InterfaceBlocks(IpBundle1) },
                        { a \o b : a \in InterfaceBlocks(Bundle1),
                                   b \in InterfaceBlocks(Bundle1) } } }

\* diagnose on a device whose configuration is made of interface blocks
ExtractBlock ==
    /\ eval = NoEval
    /\ \E d \in BlockDevices :
          eval' = [fn |-> "diagnose_block", device |-> d, result |-> diagnose(d)]
    /\ UNCHANGED << reconcileVars, device, diagnostic, prev, calls, batch,
                    request, cache, threads >>

\* --------------------------------------------------------------------------
\* eve_li_xml_generator_v2.py, subnet_validator.py, subnet_lookup.py: the feed
\* --------------------------------------------------------------------------

\* validate_ip_address(ip_addr) of the base generator, for a text without
\* white space: ipaddress.ip_address or ipaddress.ip_network(strict=False)
\* accepts it
validate_ip_address(ip_addr) ==
    /\ ip_addr # None
    /\ ip_addr # <<>>
    /\ \/ IPv4Network(ip_addr) # <<>>
       \/ IPv6Network(ip_addr) # <<>>

\* the Network elements _generate_vfz_xml and _generate_pe_xml write for one
\* device that has a hostname and a loopback: `for subnet in subnets: if
\* self.validate_ip_address(subnet)`
NetworkElements(subnets) == SelectSeq(subnets, LAMBDA subnet : validate_ip_address(subnet))

\* validate_cmts_subnets: valid_subnets is the intersection, per family, of
\* what Netshot and what MySQL hold for the device
validate_cmts_subnets(netshot_subnets, mysql_subnets) ==
    [ipv4 |-> netshot_subnets.ipv4 \cap mysql_subnets.ipv4,
     ipv6 |-> netshot_subnets.ipv6 \cap mysql_subnets.ipv6]

\* _build_subnet_index: the subnets of a device that the index marks
\* included_in_xml
IncludedInXml(device_type, subnets, valid_subnets) ==
    { subnets[i] : i \in { j \in 1..Len(subnets) :
          \/ device_type = "PE"
          \/ subnets[j] \in (IF ":" \in Range(subnets[j]) THEN valid_subnets.ipv6
                              ELSE valid_subnets.ipv4) } }

\* the feed for one device that has a hostname and a loopback: what Netshot
\* has discovered for it (its subnets, IPv4 before IPv6), what the registry
\* holds for it, the Network elements written and the validator's answer
GenerateFeed ==
    /\ eval = NoEval
    /\ \E device_type \in {"CMTS", "PE"},
          n4 \in SUBSET {NetP, NetA, <<"b", "a", "d">>}, n6 \in SUBSET {Net6},
          m4 \in SUBSET {NetP, NetA, NetB}, m6 \in SUBSET {Net6} :
          \E subnets \in {SetToSeq(n4) \o SetToSeq(n6)} :
          \E valid \in {validate_cmts_subnets([ipv4 |-> n4, ipv6 |-> n6],
                                               [ipv4 |-> m4, ipv6 |-> m6])} :
             eval' = [fn |-> "generate_xml",
                      device_type |-> device_type,
                      subnets |-> subnets,
                      mysql |-> m4 \cup m6,
                      networks |-> NetworkElements(subnets),
                      valid_subnets |-> valid,
                      included_in_xml |-> IncludedInXml(device_type, subnets, valid)]
    /\ UNCHANGED << reconcileVars, device, diagnostic, prev, calls, batch,
                    request, cache, threads >>

\* --------------------------------------------------------------------------
\* netshot_api.py: NetshotAPI._make_request
\* --------------------------------------------------------------------------

\* the largest max_retries a caller passes
MaxRetries == 3

\* what requests.request and raise_for_status end with: a status code, or
\* an exception of requests.exceptions
Responses ==
    { [exc |-> "none", status_code |-> c] : c \in {200, 204, 404, 500} }
    \cup { [exc |-> e, status_code |-> 0] :
              e \in {"Timeout", "ConnectionError", "RequestException"} }

\* a handler that retries after every HTTP error
Retried_any_http_error(r) ==
    \/ r.exc = "none" /\ r.status_code >= 400
    \/ r.exc \in {"Timeout", "ConnectionError"}

\* the except clauses that fall through to the next iteration: an HTTPError
\* that is not 4xx, a Timeout, a ConnectionError
Retried(r) ==
    \/ r.exc = "none" /\ r.status_code >= 500
    \/ r.exc \in {"Timeout", "ConnectionError"}

\* _make_request(endpoint, max_retries = n) is entered
MakeRequest ==
    /\ request = NoRequest
    /\ \E n \in 0..MaxRetries :
          request' = [pc |-> "loop", max_retries |-> n, attempt |-> 0,
                      responses |-> <<>>, sleeps |-> <<>>, returned |-> "unset"]
    /\ UNCHANGED << reconcileVars, otherVars_but_request >>

\* one pass of `for attempt in range(max_retries)`: the wait before a retry,
\* the HTTP request, and the return or except clause its outcome selects
Attempt ==
    /\ request.pc = "loop"
    /\ request.attempt < request.max_retries
    /\ \E r \in Responses :
       \E sent \in {[request EXCEPT
                        !.sleeps = IF request.attempt > 0
                                   THEN Append(@, Pow2(request.attempt - 1)) ELSE @,
                        !.responses = Append(@, r)]} :
          request' =
              IF r.exc = "none" /\ r.status_code < 400
              THEN [sent EXCEPT !.pc = "returned",
                                !.returned = IF r.status_code = 204 THEN "{}"
                                             ELSE "payload"]
              ELSE IF Retried(r) /\ request.attempt # request.max_retries - 1
              THEN [sent EXCEPT !.attempt = @ + 1]
              ELSE [sent EXCEPT !.pc = "returned", !.returned = "None"]
    /\ UNCHANGED << reconcileVars, otherVars_but_request >>

\* the `return None` after the loop, reached when range(max_retries) is
\* exhausted without a return
EndOfLoop ==
    /\ request.pc = "loop"
    /\ request.attempt >= request.max_retries
    /\ request' = [request EXCEPT !.pc = "returned", !.returned = "None"]
    /\ UNCHANGED << reconcileVars, otherVars_but_request >>

\* --------------------------------------------------------------------------
\* cache_manager.py: CacheManager, one thread at a time
\* --------------------------------------------------------------------------

\* the times the clock shows, in seconds
Clock == {0, 3600, 7200}

\* CACHE_TTL: the default_ttl a NetshotAPI gives its CacheManager
DefaultTtl == 86400

\* the cache file of a key / its metadata file, as sets of zero or one file
CacheFile(c, key) == {f \in c.files : f.key = key}
MetaFile(c, key) == {m \in c.meta : m.key = key}

\* _delete_cache_files: unlink the cache file and the metadata file
delete_cache_files(c, key) ==
    [c EXCEPT !.files = @ \ CacheFile(c, key),
              !.meta = @ \ MetaFile(c, key)]

\* CacheManager.set: write the cache file, then the metadata file with
\* expires_at = now + ttl
CacheManager_set(c, key, value, ttl) ==
    [c EXCEPT !.files = (@ \ CacheFile(c, key))
                        \cup {[key |-> key, inode |-> 0, value |-> value,
                               expires_at |-> 0, complete |-> TRUE]},
              !.meta = (@ \ MetaFile(c, key))
                       \cup {[key |-> key, inode |-> 0, value |-> "None",
                               expires_at |-> c.now + ttl, complete |-> TRUE]},
              !.written = @ \cup {value}]

\* CacheManager.get: the value returned and the directory afterwards. The
\* value of a stored None is Python's None, the same object as the default
\* of a miss; "None" stands for it.
CacheManager_get(c, key, default) ==
    IF CacheFile(c, key) = {}
    THEN [value |-> default, cache |-> c]
    ELSE IF \E m \in MetaFile(c, key) : ~m.complete
    THEN [value |-> default, cache |-> c]
    ELSE IF \E m \in MetaFile(c, key) : c.now > m.expires_at
    THEN [value |-> default, cache |-> delete_cache_files(c, key)]
    ELSE IF \E f \in CacheFile(c, key) : ~f.complete
    THEN [value |-> default, cache |-> c]
    ELSE [value |-> (CHOOSE f \in CacheFile(c, key) : TRUE).value, cache |-> c]

\* time passes
Tick ==
    /\ \E t \in Clock : t > cache.now /\ cache' = [cache EXCEPT !.now = t]
    /\ UNCHANGED << reconcileVars, device, diagnostic, prev, calls, batch, eval,
                    request, threads >>

\* --------------------------------------------------------------------------
\* netshot_api.py: NetshotAPI.get_loopback_interface
\* --------------------------------------------------------------------------

DeviceIds == {1, 2}

\* what Netshot answers to devices/<id>/diagnostics: a NOKIA_LI_INT result
\* with an LI_LOOPBACK, or nothing of the kind
DiagnosticAnswers == {"213.51.0.9", "None"}

\* what Netshot answers to devices/<id>/interfaces: no response, a list
\* without a loopback address, a list with one
InterfaceAnswers == {"None", "[]", "[213.51.0.1]"}

loopback_key(device_id) == << "device_loopback_", device_id >>
interfaces_key(device_id) == << "device_interfaces_", device_id >>

\* get_device_interfaces: the list returned, the directory afterwards and the
\* number of requests sent
get_device_interfaces(c, use_cache, device_id, force_refresh, answer) ==
    LET cached == IF use_cache /\ ~force_refresh
                  THEN CacheManager_get(c, interfaces_key(device_id), "None")
                  ELSE [value |-> "None", cache |-> c]
    IN  IF cached.value # "None"
        THEN [value |-> cached.value, cache |-> cached.cache, requests |-> 0]
        ELSE IF answer = "None"
        THEN [value |-> "[]", cache |-> cached.cache, requests |-> 1]
        ELSE [value |-> answer,
              cache |-> IF use_cache
                        THEN CacheManager_set(cached.cache, interfaces_key(device_id),
                                              answer, DefaultTtl)
                        ELSE cached.cache,
              requests |-> 1]

\* the address the loop over the interfaces settles on
loopback_of(interfaces) == IF interfaces = "[213.51.0.1]" THEN "213.51.0.1" ELSE "None"

\* `if cached_data is not None: return cached_data`
answered_from_cache(cached_data) == cached_data # "None"

\* get_loopback_interface: the address returned, the directory afterwards
\* and the number of requests sent
get_loopback_interface(c, use_cache, device_id, force_refresh, diag, answer) ==
    LET lookup == use_cache /\ ~force_refresh
        cached == IF lookup
                  THEN CacheManager_get(c, loopback_key(device_id), "None")
                  ELSE [value |-> "None", cache |-> c]
        c1 == cached.cache
        interfaces == get_device_interfaces(c1, use_cache, device_id, force_refresh,
                                            answer)
        found == loopback_of(interfaces.value)
    IN  IF lookup /\ answered_from_cache(cached.value)
        THEN [value |-> cached.value, cache |-> c1, requests |-> 0]
        ELSE IF diag # "None"
        THEN [value |-> diag,
              cache |-> IF use_cache
                        THEN CacheManager_set(c1, loopback_key(device_id), diag,
                                              DefaultTtl)
                        ELSE c1,
              requests |-> 1]
        ELSE IF found # "None"
        THEN [value |-> found,
              cache |-> IF use_cache
                        THEN CacheManager_set(interfaces.cache,
                                              loopback_key(device_id), found,
                                              DefaultTtl)
                        ELSE interfaces.cache,
              requests |-> 1 + interfaces.requests]
        ELSE [value |-> "None",
              cache |-> IF use_cache
                        THEN CacheManager_set(interfaces.cache,
                                              loopback_key(device_id), "None", 3600)
                        ELSE interfaces.cache,
              requests |-> 1 + interfaces.requests]

\* history: for each device the time at which a call last stored None for
\* it, -1 when none did or a later call stored something else
NoneCachedAt ==
    IF eval.fn = "get_loopback_interface"
    THEN eval.none_cached_at
    ELSE [d \in DeviceIds |-> -1]

\* one call of get_loopback_interface
GetLoopback ==
    /\ eval.fn \in {"none", "get_loopback_interface"}
    /\ \E device_id \in DeviceIds, use_cache, force_refresh \in BOOLEAN,
          diag \in DiagnosticAnswers, answer \in InterfaceAnswers :
         \E r \in {get_loopback_interface(cache, use_cache, device_id, force_refresh,
                                          diag, answer)} :
            /\ cache' = r.cache
            /\ eval' = [fn |-> "get_loopback_interface",
                        device_id |-> device_id,
                        use_cache |-> use_cache,
                        force_refresh |-> force_refresh,
                        at |-> cache.now,
                        none_cached_before |-> NoneCachedAt[device_id],
                        requests |-> r.requests,
                        result |-> r.value,
                        none_cached_at |->
                            IF r.requests = 0 \/ ~use_cache
                            THEN NoneCachedAt
                            ELSE [NoneCachedAt EXCEPT ![device_id] =
                                     IF r.value = "None" THEN cache.now ELSE -1]]
    /\ UNCHANGED << reconcileVars, device, diagnostic, prev, calls, batch, request,
                    threads >>

\* --------------------------------------------------------------------------
\* cache_manager.py: CacheManager, several threads on one cache directory
\* --------------------------------------------------------------------------

Threads == {1, 2, 3}

\* the CacheManager objects on the directory: each NetshotAPI makes its own,
\* each with its own threading.Lock
Instances == {1, 2}

\* the values handed to set; their JSON texts have the same length, so a
\* later write of the file replaces an earlier one whole
Values == {"213.51.0.1", "213.51.0.2"}

\* the one key the threads use
TheKey == loopback_key(1)

\* a thread before its operation
IdleThread ==
    [pc |-> "idle", op |-> "none", instance |-> 0, value |-> "None",
     expires_at |-> 0, handle |-> 0, returned |-> "None",
     removed_fresh |-> FALSE]

IdleThreads == [t \in Threads |-> IdleThread]

\* the end of an operation: the value returned; leaving `with self._lock`
\* releases the lock of the thread's instance
Return(t, value, c) ==
    /\ threads' = [threads EXCEPT ![t].pc = "returned", ![t].returned = value,
                                  ![t].instance = 0, ![t].value = "None",
                                  ![t].expires_at = 0, ![t].handle = 0]
    /\ cache' = [c EXCEPT !.locks = @ \ {threads[t].instance}]

\* open(path, 'w'): truncates the file of the path, or creates one
OpenForWriting(files, t) ==
    IF \E f \in files : f.key = TheKey
    THEN {[f EXCEPT !.complete = FALSE] : f \in {g \in files : g.key = TheKey}}
    ELSE {[key |-> TheKey, inode |-> t, value |-> "None",
           expires_at |-> 0, complete |-> FALSE]}

\* the entry on disk is whole and has not expired
FreshOnDisk(c) ==
    /\ \E f \in CacheFile(c, TheKey) : f.complete
    /\ \E m \in MetaFile(c, TheKey) : m.complete /\ ~(c.now > m.expires_at)

\* a thread calls set, get or delete of some instance
CallCacheManager ==
    /\ \E t \in Threads, op \in {"set", "get", "delete"}, i \in Instances,
          v \in Values :
         /\ threads[t].pc = "idle"
         /\ op # "set" => v = "213.51.0.1"
         /\ threads' = [threads EXCEPT ![t].pc = "lock", ![t].op = op,
                                       ![t].instance = i,
                                       ![t].value = IF op = "set" THEN v ELSE "None",
                                       ![t].returned = "None"]
    /\ UNCHANGED << reconcileVars, device, diagnostic, prev, calls, batch, eval,
                    request, cache >>

\* `with self._lock:` and the lines up to the first file operation; set
\* computes expires_at here
Acquire ==
    /\ \E t \in Threads :
         /\ threads[t].pc = "lock"
         /\ threads[t].instance \notin cache.locks
         /\ cache' = [cache EXCEPT !.locks = @ \cup {threads[t].instance}]
         /\ threads' = [threads EXCEPT
                ![t].pc = CASE threads[t].op = "set" -> "set_open_cache"
                            [] threads[t].op = "get" -> "get_exists"
                            [] OTHER -> "delete_cache",
                ![t].expires_at = IF threads[t].op = "set"
                                  THEN cache.now + 3600 ELSE 0]
    /\ UNCHANGED << reconcileVars, device, diagnostic, prev, calls, batch, eval,
                    request >>

\* set: `with open(cache_file, 'w') as f`
SetOpenCache ==
    /\ \E t \in Threads :
         /\ threads[t].pc = "set_open_cache"
         /\ \E opened \in {OpenForWriting(cache.files, t)} :
              /\ cache' = [cache EXCEPT !.files = (@ \ CacheFile(cache, TheKey))
                                                  \cup opened]
              /\ threads' = [threads EXCEPT
                     ![t].pc = "set_write_cache",
                     ![t].handle = (CHOOSE f \in opened : TRUE).inode]
    /\ UNCHANGED << reconcileVars, device, diagnostic, prev, calls, batch, eval,
                    request >>

\* set: json.dump(cache_data, f) and the close; the bytes go to the file
\* that was opened, whether or not the path still names it
SetWriteCache ==
    /\ \E t \in Threads :
         /\ threads[t].pc = "set_write_cache"
         /\ cache' = [cache EXCEPT
                !.files = {IF f.key = TheKey /\ f.inode = threads[t].handle
                           THEN [f EXCEPT !.value = threads[t].value,
                                          !.complete = TRUE]
                           ELSE f : f \in @},
                !.written = @ \cup {threads[t].value}]
         /\ threads' = [threads EXCEPT ![t].pc = "set_open_meta"]
    /\ UNCHANGED << reconcileVars, device, diagnostic, prev, calls, batch, eval,
                    request >>

\* set: `with open(meta_file, 'w') as f`
SetOpenMeta ==
    /\ \E t \in Threads :
         /\ threads[t].pc = "set_open_meta"
         /\ \E opened \in {OpenForWriting(cache.meta, t)} :
              /\ cache' = [cache EXCEPT !.meta = (@ \ MetaFile(cache, TheKey))
                                                 \cup opened]
              /\ threads' = [threads EXCEPT
                     ![t].pc = "set_write_meta",
                     ![t].handle = (CHOOSE f \in opened : TRUE).inode]
    /\ UNCHANGED << reconcileVars, device, diagnostic, prev, calls, batch, eval,
                    request >>

\* set: json.dump(meta_data, f), the close and `return True`
SetWriteMeta ==
    /\ \E t \in Threads :
         /\ threads[t].pc = "set_write_meta"
         /\ Return(t, "True",
                   [cache EXCEPT
                       !.meta = {IF m.key = TheKey /\ m.inode = threads[t].handle
                                 THEN [m EXCEPT !.expires_at = threads[t].expires_at,
                                                !.complete = TRUE]
                                 ELSE m : m \in @}])
    /\ UNCHANGED << reconcileVars, device, diagnostic, prev, calls, batch, eval,
                    request >>

\* get: `if not cache_file.exists(): return default`
GetExists ==
    /\ \E t \in Threads :
         /\ threads[t].pc = "get_exists"
         /\ IF CacheFile(cache, TheKey) = {}
            THEN Return(t, "None", cache)
            ELSE /\ threads' = [threads EXCEPT ![t].pc = "get_meta"]
                 /\ UNCHANGED cache
    /\ UNCHANGED << reconcileVars, device, diagnostic, prev, calls, batch, eval,
                    request >>

\* get: `if meta_file.exists():`, the reading of expires_at and the
\* comparison with the clock; a truncated file is no JSON, and the
\* `except Exception` returns the default
GetMeta ==
    /\ \E t \in Threads :
         /\ threads[t].pc = "get_meta"
         /\ IF MetaFile(cache, TheKey) = {}
            THEN /\ threads' = [threads EXCEPT ![t].pc = "get_read"]
                 /\ UNCHANGED cache
            ELSE \E m \in MetaFile(cache, TheKey) :
                    IF ~m.complete
                    THEN Return(t, "None", cache)
                    ELSE /\ threads' = [threads EXCEPT
                                ![t].expires_at = m.expires_at,
                                ![t].pc = IF cache.now > m.expires_at
                                          THEN "get_unlink_cache"
                                          ELSE "get_read"]
                         /\ UNCHANGED cache
    /\ UNCHANGED << reconcileVars, device, diagnostic, prev, calls, batch, eval,
                    request >>

\* get, in _delete_cache_files: `if cache_file.exists(): cache_file.unlink()`
GetUnlinkCache ==
    /\ \E t \in Threads :
         /\ threads[t].pc = "get_unlink_cache"
         /\ cache' = [cache EXCEPT !.files = @ \ CacheFile(cache, TheKey)]
         /\ threads' = [threads EXCEPT
                ![t].pc = "get_unlink_meta",
                ![t].removed_fresh = @ \/ FreshOnDisk(cache)]
    /\ UNCHANGED << reconcileVars, device, diagnostic, prev, calls, batch, eval,
                    request >>

\* get, in _delete_cache_files: `if meta_file.exists(): meta_file.unlink()`,
\* then `return default`
GetUnlinkMeta ==
    /\ \E t \in Threads :
         /\ threads[t].pc = "get_unlink_meta"
         /\ Return(t, "None", [cache EXCEPT !.meta = @ \ MetaFile(cache, TheKey)])
    /\ UNCHANGED << reconcileVars, device, diagnostic, prev, calls, batch, eval,
                    request >>

\* get: the reading of the cache file and `return cache_data.get('value',
\* default)`; a missing or truncated file raises, and the default returns
GetRead ==
    /\ \E t \in Threads :
         /\ threads[t].pc = "get_read"
         /\ IF \E f \in CacheFile(cache, TheKey) : f.complete
            THEN \E f \in CacheFile(cache, TheKey) : Return(t, f.value, cache)
            ELSE Return(t, "None", cache)
    /\ UNCHANGED << reconcileVars, device, diagnostic, prev, calls, batch, eval,
                    request >>

\* delete, in _delete_cache_files: the cache file
DeleteCache ==
    /\ \E t \in Threads :
         /\ threads[t].pc = "delete_cache"
         /\ cache' = [cache EXCEPT !.files = @ \ CacheFile(cache, TheKey)]
         /\ threads' = [threads EXCEPT ![t].pc = "delete_meta"]
    /\ UNCHANGED << reconcileVars, device, diagnostic, prev, calls, batch, eval,
                    request >>

\* delete, in _delete_cache_files: the metadata file, then `return True`
DeleteMeta ==
    /\ \E t \in Threads :
         /\ threads[t].pc = "delete_meta"
         /\ Return(t, "True", [cache EXCEPT !.meta = @ \ MetaFile(cache, TheKey)])
    /\ UNCHANGED << reconcileVars, device, diagnostic, prev, calls, batch, eval,
                    request >>

\* --------------------------------------------------------------------------
\* dhcp_cache_warmer.py and cache_warmer.py: the batch runners
\* --------------------------------------------------------------------------

\* the longest inventory a run is given
MaxDevices == 2

\* the two runners
Runners == {"warm_dhcp_cache", "warm_device_validation_cache"}

\* the attributes of the class both runners construct as DHCPDatabase():
\* "from dhcp_integration import DHCPIntegration as DHCPDatabase"
DHCPIntegration ==
    { "get_db_connection", "test_connection", "get_dhcp_scopes",
      "get_dhcp_scopes_by_interface", "cross_reference_cmts_interfaces",
      "get_subnets_from_dhcp", "_netmask_to_cidr", "enrich_cmts_device",
      "get_cmts_statistics" }

\* the names bound by the runners' imports
DHCPDatabase == DHCPIntegration

\* a device of netshot_api.get_cmts_devices
InventoryDevice(name, oss10, primary, subnets) ==
    [name |-> name, oss10_hostname |-> oss10, primary_subnet |-> primary,
     subnets |-> subnets]

\* the devices an inventory is made of: two complete ones, one without a
\* primary subnet, one without a name, one whose subnets entry is None
InventoryDevices ==
    { InventoryDevice(HostE6000, None, NetP, <<NetP, NetA>>),
      InventoryDevice(HostCasa, HostOther, NetB, <<NetB, SiteB>>),
      InventoryDevice(HostOther, None, None, <<>>),
      InventoryDevice(None, None, NetP, <<NetA>>),
      InventoryDevice(HostCasa, None, NetP, None) }

Inventories ==
    UNION { [1..n -> InventoryDevices] : n \in 0..MaxDevices }

\* device.get('oss10_hostname') or device_name
dhcp_hostname(d) == IF Truthy(d.oss10_hostname) THEN d.oss10_hostname ELSE d.name

\* the comprehensions over subnets raise TypeError when subnets is None
Raises(d) == d.subnets = None

\* the state of a run: devices is the inventory, reconciled the calls of
\* validate_device_dhcp made so far (with the index of the device), stored
\* the validations saved so far (with the device's name)
NoRun ==
    [pc |-> "idle", runner |-> "none", devices |-> <<>>, validated_count |-> 0,
     error_count |-> 0, reconciled |-> <<>>, stored |-> {}, outcome |-> "none",
     next |-> 1, counted |-> {}]

\* `python dhcp_cache_warmer.py` or `python cache_warmer.py` from cron: the
\* counters start at zero, NetshotAPI() and DHCPDatabase() are constructed;
\* devices is the inventory Netshot holds for this run
StartRun ==
    /\ pc = "idle"
    /\ batch.pc = "idle"
    /\ \E r \in Runners, inv \in Inventories :
          batch' = [NoRun EXCEPT !.pc = "connect", !.runner = r, !.devices = inv]
    /\ UNCHANGED << registry, connection, pc, device_name, primary_subnet,
                    public_ipv4_subnets, public_ipv6_subnets, dhcp_scopes,
                    dhcp_ipv6_scopes, dhcp_scopes_retry, dhcp_ipv6_scopes_retry,
                    scope_count, retry_count, result, seen, pauses, changes,
                    device, diagnostic, prev, calls, eval, request, cache, threads >>

\* `if not dhcp_db.connect():` - the attribute lookup on the constructed
\* object raises AttributeError when its class has no connect; the outer
\* `except Exception` ends the run: warm_dhcp_cache returns False,
\* warm_device_validation_cache calls sys.exit(1). Neither has fetched the
\* inventory or entered its device loop by then.
DbConnect ==
    /\ batch.pc = "connect"
    /\ IF "connect" \in DHCPDatabase
       THEN batch' = [batch EXCEPT !.pc = "fetch"]
       ELSE batch' = [batch EXCEPT !.pc = "ended",
                                   !.outcome = IF batch.runner = "warm_dhcp_cache"
                                               THEN "return False"
                                               ELSE "sys.exit(1)"]
    /\ UNCHANGED << registry, connection, pc, device_name, primary_subnet,
                    public_ipv4_subnets, public_ipv6_subnets, dhcp_scopes,
                    dhcp_ipv6_scopes, dhcp_scopes_retry, dhcp_ipv6_scopes_retry,
                    scope_count, retry_count, result, seen, pauses, changes,
                    device, diagnostic, prev, calls, eval, request, cache, threads >>

\* the device loops of the two runners, entered with the inventory; they are
\* reached when the class bound to DHCPDatabase provides connect

\* [s for s in subnets if '.' in s and ':' not in s ...]; cache_warmer.py
\* keeps the public ones only
loop_ipv4_subnets(runner, subnets) ==
    SelectSeq(subnets,
              LAMBDA s : /\ "." \in Range(s)
                         /\ ":" \notin Range(s)
                         /\ (runner = "warm_device_validation_cache"
                                => utils_is_public_ipv4(Split(s, "/")[1])))

\* [s for s in subnets if ':' in s ...]; no inventory of the model holds an
\* IPv6 text, so the public test cache_warmer.py adds is never applied
loop_ipv6_subnets(runner, subnets) == SelectSeq(subnets, LAMBDA s : ":" \in Range(s))

\* the body of the loop for one device, given whether the database takes the
\* write: the run afterwards
loop_body(run, d, write_ok) ==
    LET i == run.next
        after == [run EXCEPT !.next = i + 1]
        success == [after EXCEPT !.validated_count = @ + 1,
                                 !.counted = @ \cup {[idx |-> i, as |-> "success"]}]
        error == [after EXCEPT !.error_count = @ + 1,
                               !.counted = @ \cup {[idx |-> i, as |-> "error"]}]
        call == [idx |-> i, hostname |-> dhcp_hostname(d),
                 primary |-> d.primary_subnet,
                 ipv4 |-> loop_ipv4_subnets(run.runner, d.subnets),
                 ipv6 |-> loop_ipv6_subnets(run.runner, d.subnets)]
        written == IF write_ok THEN {[idx |-> i, name |-> d.name]} ELSE {}
    IN  IF run.runner = "warm_device_validation_cache"
        THEN \* cache_warmer.py: AppCache.set returns nothing and catches
             \* its own errors; cmts_success += 1 follows it
             IF ~Truthy(d.name) THEN after
             ELSE IF Raises(d) THEN error
             ELSE IF Truthy(d.primary_subnet) /\ Truthy(dhcp_hostname(d))
             THEN [success EXCEPT !.reconciled = Append(@, call),
                                  !.stored = @ \cup written]
             ELSE after
        ELSE \* dhcp_cache_warmer.py: `if dhcp_db.save_dhcp_validation(...)`
             IF Raises(d) THEN error
             ELSE IF Truthy(d.primary_subnet) /\ Truthy(dhcp_hostname(d))
             THEN IF write_ok
                  THEN [success EXCEPT !.reconciled = Append(@, call),
                                       !.stored = @ \cup written]
                  ELSE [error EXCEPT !.reconciled = Append(@, call)]
             ELSE after

\* the lines between a connect that succeeded and the loop: the counters
\* are at zero and the inventory is fetched from Netshot
EnterLoop ==
    /\ pc = "idle"
    /\ batch.pc = "idle"
    /\ \E r \in Runners, inv \in Inventories :
          batch' = [NoRun EXCEPT !.pc = "loop", !.runner = r, !.devices = inv]
    /\ UNCHANGED << reconcileVars, device, diagnostic, prev, calls, eval, request,
                    cache, threads >>

\* one pass of `for device in devices:`
ProcessDevice ==
    /\ batch.pc = "loop"
    /\ batch.next <= Len(batch.devices)
    /\ \E write_ok \in BOOLEAN :
          batch' = loop_body(batch, batch.devices[batch.next], write_ok)
    /\ UNCHANGED << reconcileVars, device, diagnostic, prev, calls, eval, request,
                    cache, threads >>

\* the lines after the loop: the connections are closed and the counts logged
EndRun ==
    /\ batch.pc = "loop"
    /\ batch.next > Len(batch.devices)
    /\ batch' = [batch EXCEPT !.pc = "ended",
                              !.outcome = IF batch.runner = "warm_dhcp_cache"
                                          THEN "return True"
                                          ELSE "return None"]
    /\ UNCHANGED << reconcileVars, device, diagnostic, prev, calls, eval, request,
                    cache, threads >>

\* --------------------------------------------------------------------------
\* dhcp_database.py: DHCPDatabase
\* --------------------------------------------------------------------------

\* pymysql.connect succeeds iff the database is reachable
connect(reg) == reg.up

\* ORDER BY scope
OrderByScope(S) == SortSeq(SetToSeq(S), LAMBDA a, b : StrLess(a.scope, b.scope))

\* ORDER BY prefixname
OrderByPrefixname(S) ==
    SortSeq(SetToSeq(S), LAMBDA a, b : StrLess(a.prefixname, b.prefixname))

\* a query that returns the empty list on the call that had to connect
get_scopes_by_primary_late(conn, reg, primary) ==
    IF conn = "closed"
    THEN [rows |-> <<>>, connection |-> IF connect(reg) THEN "open" ELSE "closed",
          raised |-> FALSE]
    ELSE IF reg.up
         THEN [rows |-> OrderByScope({r \in reg.scopesnew : r.primscope = primary}),
               connection |-> "open", raised |-> FALSE]
         ELSE [rows |-> <<>>, connection |-> "open", raised |-> FALSE]

get_scopes_by_primary(conn, reg, primary) ==
    IF conn = "closed" /\ ~connect(reg)
    THEN [rows |-> <<>>, connection |-> "closed", raised |-> FALSE]
    ELSE IF reg.up
         THEN [rows |-> OrderByScope({r \in reg.scopesnew : r.primscope = primary}),
               connection |-> "open", raised |-> FALSE]
         ELSE [rows |-> <<>>, connection |-> "open", raised |-> FALSE]

\* a query whose cursor error is not caught
get_ipv6_scopes_by_hostname_uncaught(conn, reg, hostname) ==
    IF conn = "closed" /\ ~connect(reg)
    THEN [rows |-> <<>>, connection |-> "closed", raised |-> FALSE]
    ELSE IF reg.up
         THEN [rows |-> OrderByPrefixname({r \in reg.ipv6scopesnew : r.hostname = hostname}),
               connection |-> "open", raised |-> FALSE]
         ELSE [rows |-> <<>>, connection |-> "open", raised |-> TRUE]

get_ipv6_scopes_by_hostname(conn, reg, hostname) ==
    IF conn = "closed" /\ ~connect(reg)
    THEN [rows |-> <<>>, connection |-> "closed", raised |-> FALSE]
    ELSE IF reg.up
         THEN [rows |-> OrderByPrefixname({r \in reg.ipv6scopesnew : r.hostname = hostname}),
               connection |-> "open", raised |-> FALSE]
         ELSE [rows |-> <<>>, connection |-> "open", raised |-> FALSE]

\* a filter that forgets to drop the primary subnet
public_dhcp_scopes_with_primary(rows, primary) ==
    SelectSeq(rows, LAMBDA s : is_public_ipv4(s.scope))

\* [s for s in dhcp_scopes if is_public_ipv4(s['scope']) and s['scope'] != primary_subnet]
public_dhcp_scopes(rows, primary) ==
    SelectSeq(rows, LAMBDA s : is_public_ipv4(s.scope) /\ s.scope # primary)

\* prefix.replace('-PD', '') if prefix.endswith('-PD') else prefix
base_prefix(prefix) ==
    IF EndsWith(prefix, <<"-", "P", "D">>)
    THEN Replace(prefix, <<"-", "P", "D">>, <<>>)
    ELSE prefix

\* the loop that keeps the first row of every base prefix
RECURSIVE UniqueLoop(_, _, _)
UniqueLoop(rows, seen_prefixes, unique) ==
    IF rows = <<>> THEN unique
    ELSE LET base == base_prefix(Head(rows).prefixname)
         IN  IF base \notin seen_prefixes
             THEN UniqueLoop(Tail(rows), seen_prefixes \cup {base}, Append(unique, Head(rows)))
             ELSE UniqueLoop(Tail(rows), seen_prefixes, unique)

unique_ipv6_scopes(rows) == UniqueLoop(rows, {}, <<>>)

\* the dictionary validate_device_dhcp starts from
EmptyResult ==
    [ has_dhcp |-> FALSE,
      dhcp_scopes |-> <<>>,
      dhcp_scopes_count |-> 0,
      dhcp_ipv6_scopes |-> <<>>,
      missing_in_dhcp |-> <<>>,
      extra_in_dhcp |-> <<>>,
      matched |-> <<>>,
      ipv6_missing_in_dhcp |-> <<>>,
      ipv6_matched |-> <<>> ]

\* a validation that reports nothing missing when the registry has no scope
ValidateIPv4_nothing_missing(has_dhcp, public_scopes, ipv4_subnets) ==
    IF ~has_dhcp
    THEN { [missing |-> <<>>, extra |-> <<>>, matched |-> <<>>] }
    ELSE LET dhcp_scope_set == {public_scopes[i].scope : i \in 1..Len(public_scopes)}
             netshot_scope_set == Range(ipv4_subnets)
         IN  { [missing |-> m, extra |-> e, matched |-> k] :
                 <<m, e, k>> \in ListsOf(netshot_scope_set \ dhcp_scope_set)
                                 \X ListsOf(dhcp_scope_set \ netshot_scope_set)
                                 \X ListsOf(netshot_scope_set \cap dhcp_scope_set) }

\* "Validate IPv4": the values missing_in_dhcp, extra_in_dhcp, matched may take
ValidateIPv4(has_dhcp, public_scopes, ipv4_subnets) ==
    IF ~has_dhcp
    THEN { [missing |-> ipv4_subnets, extra |-> <<>>, matched |-> <<>>] }
    ELSE LET dhcp_scope_set == {public_scopes[i].scope : i \in 1..Len(public_scopes)}
             netshot_scope_set == Range(ipv4_subnets)
         IN  { [missing |-> m, extra |-> e, matched |-> k] :
                 <<m, e, k>> \in ListsOf(netshot_scope_set \ dhcp_scope_set)
                                 \X ListsOf(dhcp_scope_set \ netshot_scope_set)
                                 \X ListsOf(netshot_scope_set \cap dhcp_scope_set) }

\* "Validate IPv6": the values ipv6_missing_in_dhcp, ipv6_matched may take
ValidateIPv6(ipv6_rows, ipv6_subnets) ==
    IF ipv6_rows # <<>>
    THEN LET dhcp_ipv6_scope_set == {ipv6_rows[i].prefixname : i \in 1..Len(ipv6_rows)}
             netshot_ipv6_scope_set == Range(ipv6_subnets)
         IN  { [missing |-> m, matched |-> k] :
                 <<m, k>> \in ListsOf(netshot_ipv6_scope_set \ dhcp_ipv6_scope_set)
                              \X ListsOf(netshot_ipv6_scope_set \cap dhcp_ipv6_scope_set) }
    ELSE { [missing |-> ipv6_subnets, matched |-> <<>>] }

\* the mutation: result['dhcp_scopes'] and result['dhcp_ipv6_scopes'] keep the
\* rows of the first round when the retry round is adopted
Finalize_keeps_first_rows(rows, public_scopes, ipv6_rows, unique_ipv6, ipv4_subnets, ipv6_subnets) ==
    LET count == Len(public_scopes) + Len(unique_ipv6)
        has == count > 0
    IN  { [ has_dhcp |-> has,
            dhcp_scopes |-> dhcp_scopes,
            dhcp_scopes_count |-> count,
            dhcp_ipv6_scopes |-> dhcp_ipv6_scopes,
            missing_in_dhcp |-> v4.missing,
            extra_in_dhcp |-> v4.extra,
            matched |-> v4.matched,
            ipv6_missing_in_dhcp |-> v6.missing,
            ipv6_matched |-> v6.matched ] :
          <<v4, v6>> \in ValidateIPv4(has, public_scopes, ipv4_subnets)
                         \X ValidateIPv6(ipv6_rows, ipv6_subnets) }

\* lines 263-285: the results the call may return from the data it settled on
Finalize(rows, public_scopes, ipv6_rows, unique_ipv6, ipv4_subnets, ipv6_subnets) ==
    LET count == Len(public_scopes) + Len(unique_ipv6)
        has == count > 0
    IN  { [ has_dhcp |-> has,
            dhcp_scopes |-> rows,
            dhcp_scopes_count |-> count,
            dhcp_ipv6_scopes |-> ipv6_rows,
            missing_in_dhcp |-> v4.missing,
            extra_in_dhcp |-> v4.extra,
            matched |-> v4.matched,
            ipv6_missing_in_dhcp |-> v6.missing,
            ipv6_matched |-> v6.matched ] :
          <<v4, v6>> \in ValidateIPv4(has, public_scopes, ipv4_subnets)
                         \X ValidateIPv6(ipv6_rows, ipv6_subnets) }

\* "Use retry results if they're better"
UseRetry(retry, first) == retry > first

\* a retry only when nothing at all was found
NeedsRetryOnlyZero(count) == count < 1

\* "If we got 0 or 1 scopes, retry the query once"
NeedsRetry(count) == count <= 1

\* a retry loop that runs until the count looks normal
AfterRetryLoop(count) == IF count <= 1 THEN "sleep" ELSE "done"

\* the retry is an `if`, not a loop: whatever the retried count, the call
\* goes on to build its result
AfterRetry(count) == "done"

\* a statement that empties the table it reads
execute_delete(reg) == [reg EXCEPT !.scopesnew = {}, !.ipv6scopesnew = {}]

\* cursor.execute(query, ...) of a SELECT statement: the tables after it
execute(reg) == reg

\* the tables after a getter: the statement runs only on a connection that
\* was or could be opened, and it fails on a database that went away
AfterQuery(q, reg) ==
    IF q.connection = "open" /\ reg.up THEN execute(reg) ELSE reg

\* In the actions below a value that is used more than once is bound by \E
\* over a one-element set, which evaluates it once.

\* validate_device_dhcp is entered; an absent primary returns at once
Call(dn, ps, v4, v6) ==
    /\ pc \in {"idle", "done"}
    /\ device_name' = dn
    /\ primary_subnet' = ps
    /\ public_ipv4_subnets' = v4
    /\ public_ipv6_subnets' = v6
    /\ result' = EmptyResult
    /\ pc' = IF ~Truthy(ps) THEN "done" ELSE "query_v4"
    /\ dhcp_scopes' = <<>>
    /\ dhcp_ipv6_scopes' = <<>>
    /\ dhcp_scopes_retry' = <<>>
    /\ dhcp_ipv6_scopes_retry' = <<>>
    /\ scope_count' = 0
    /\ retry_count' = -1
    /\ seen' = <<>>
    /\ pauses' = 0
    /\ changes' = 0
    /\ UNCHANGED << registry, connection >>

\* lines 199-201
QueryV4 ==
    /\ pc = "query_v4"
    /\ \E q \in {get_scopes_by_primary(connection, registry, primary_subnet)} :
           /\ connection' = q.connection
           /\ registry' = AfterQuery(q, registry)
           /\ dhcp_scopes' = q.rows
           /\ result' = [result EXCEPT !.dhcp_scopes = q.rows]
           /\ pc' = IF q.raised THEN "raised" ELSE "query_v6"
    /\ seen' = Append(seen, [query |-> "ipv4", registry |-> registry])
    /\ UNCHANGED << device_name, primary_subnet, public_ipv4_subnets,
                    public_ipv6_subnets, dhcp_ipv6_scopes, dhcp_scopes_retry,
                    dhcp_ipv6_scopes_retry, scope_count, retry_count, pauses,
                    changes, otherVars >>

\* lines 203-227, and 263-285 when no retry is due
QueryV6 ==
    /\ pc = "query_v6"
    /\ \E q \in {get_ipv6_scopes_by_hostname(connection, registry, device_name)} :
       \E public \in {public_dhcp_scopes(dhcp_scopes, primary_subnet)} :
       \E unique \in {unique_ipv6_scopes(q.rows)} :
       \E count \in {Len(public) + Len(unique)} :
           /\ connection' = q.connection
           /\ registry' = AfterQuery(q, registry)
           /\ dhcp_ipv6_scopes' = q.rows
           /\ scope_count' = count
           /\ IF q.raised
              THEN /\ pc' = "raised"
                   /\ result' = result
              ELSE IF NeedsRetry(count)
              THEN /\ pc' = "sleep"
                   /\ result' = [result EXCEPT !.dhcp_ipv6_scopes = q.rows]
              ELSE /\ pc' = "done"
                   /\ result' \in Finalize(dhcp_scopes, public, q.rows, unique,
                                           public_ipv4_subnets, public_ipv6_subnets)
    /\ seen' = Append(seen, [query |-> "ipv6", registry |-> registry])
    /\ UNCHANGED << device_name, primary_subnet, public_ipv4_subnets,
                    public_ipv6_subnets, dhcp_scopes, dhcp_scopes_retry,
                    dhcp_ipv6_scopes_retry, retry_count, pauses, changes, otherVars >>

\* lines 228-230: time.sleep(0.5)
Sleep ==
    /\ pc = "sleep"
    /\ pauses' = pauses + 1
    /\ pc' = "retry_v4"
    /\ UNCHANGED << registry, connection, device_name, primary_subnet,
                    public_ipv4_subnets, public_ipv6_subnets, dhcp_scopes,
                    dhcp_ipv6_scopes, dhcp_scopes_retry, dhcp_ipv6_scopes_retry,
                    scope_count, retry_count, result, seen, changes, otherVars >>

\* lines 232-234
RetryV4 ==
    /\ pc = "retry_v4"
    /\ \E q \in {get_scopes_by_primary(connection, registry, primary_subnet)} :
           /\ connection' = q.connection
           /\ registry' = AfterQuery(q, registry)
           /\ dhcp_scopes_retry' = q.rows
           /\ pc' = IF q.raised THEN "raised" ELSE "retry_v6"
    /\ seen' = Append(seen, [query |-> "ipv4", registry |-> registry])
    /\ UNCHANGED << device_name, primary_subnet, public_ipv4_subnets,
                    public_ipv6_subnets, dhcp_scopes, dhcp_ipv6_scopes,
                    dhcp_ipv6_scopes_retry, scope_count, retry_count, result,
                    pauses, changes, otherVars >>

\* lines 236-285
RetryV6 ==
    /\ pc = "retry_v6"
    /\ \E q \in {get_ipv6_scopes_by_hostname(connection, registry, device_name)} :
       \E public \in {public_dhcp_scopes(dhcp_scopes, primary_subnet)} :
       \E unique \in {unique_ipv6_scopes(dhcp_ipv6_scopes)} :
       \E public_retry \in {public_dhcp_scopes(dhcp_scopes_retry, primary_subnet)} :
       \E unique_retry \in {unique_ipv6_scopes(q.rows)} :
       \E count \in {Len(public_retry) + Len(unique_retry)} :
           /\ connection' = q.connection
           /\ registry' = AfterQuery(q, registry)
           /\ dhcp_ipv6_scopes_retry' = q.rows
           /\ retry_count' = count
           /\ IF q.raised
              THEN /\ pc' = "raised"
                   /\ result' = result
              ELSE IF AfterRetry(count) # "done"
              THEN /\ pc' = AfterRetry(count)
                   /\ result' = result
              ELSE /\ pc' = "done"
                   /\ IF UseRetry(count, scope_count)
                      THEN result' \in Finalize(dhcp_scopes_retry, public_retry, q.rows,
                                                unique_retry, public_ipv4_subnets,
                                                public_ipv6_subnets)
                      ELSE result' \in Finalize(dhcp_scopes, public, dhcp_ipv6_scopes,
                                                unique, public_ipv4_subnets,
                                                public_ipv6_subnets)
    /\ seen' = Append(seen, [query |-> "ipv6", registry |-> registry])
    /\ UNCHANGED << device_name, primary_subnet, public_ipv4_subnets,
                    public_ipv6_subnets, dhcp_scopes, dhcp_ipv6_scopes,
                    dhcp_scopes_retry, scope_count, pauses, changes, otherVars >>

\* DHCPDatabase.connect, called by the owner of the object between calls
Connect ==
    /\ pc = "idle"
    /\ connection = "closed"
    /\ connect(registry)
    /\ connection' = "open"
    /\ UNCHANGED << registry, pc, device_name, primary_subnet,
                    public_ipv4_subnets, public_ipv6_subnets, dhcp_scopes,
                    dhcp_ipv6_scopes, dhcp_scopes_retry, dhcp_ipv6_scopes_retry,
                    scope_count, retry_count, result, seen, pauses, changes, otherVars >>

\* the environment: one row appears or disappears, or the database goes
\* down or comes back
Toggle ==
    \/ \E r \in ScopeRows :
         registry' = [registry EXCEPT !.scopesnew =
                         IF r \in @ THEN @ \ {r} ELSE @ \cup {r}]
    \/ \E r \in PrefixRows :
         registry' = [registry EXCEPT !.ipv6scopesnew =
                         IF r \in @ THEN @ \ {r} ELSE @ \cup {r}]
    \/ registry' = [registry EXCEPT !.up = ~@]

\* the registry changes between the two queries of a round or during the
\* pause between the rounds of a running call
RegistryChange ==
    /\ pc \in {"query_v6", "sleep", "retry_v6"}
    /\ changes < MaxRegistryChanges
    /\ changes' = changes + 1
    /\ Toggle
    /\ UNCHANGED << connection, pc, device_name, primary_subnet,
                    public_ipv4_subnets, public_ipv6_subnets, dhcp_scopes,
                    dhcp_ipv6_scopes, dhcp_scopes_retry, dhcp_ipv6_scopes_retry,
                    scope_count, retry_count, result, seen, pauses, otherVars >>

\* a new DHCPDatabase object (connection = None) and a reachable registry
\* that holds no row for the device yet
Init ==
    /\ registry = [scopesnew |-> OtherScopeRows, ipv6scopesnew |-> OtherPrefixRows,
                   up |-> TRUE]
    /\ connection = "closed"
    /\ pc = "idle"
    /\ device_name = None
    /\ primary_subnet = None
    /\ public_ipv4_subnets = <<>>
    /\ public_ipv6_subnets = <<>>
    /\ dhcp_scopes = <<>>
    /\ dhcp_ipv6_scopes = <<>>
    /\ dhcp_scopes_retry = <<>>
    /\ dhcp_ipv6_scopes_retry = <<>>
    /\ scope_count = 0
    /\ retry_count = -1
    /\ result = EmptyResult
    /\ seen = <<>>
    /\ pauses = 0
    /\ changes = 0
    /\ device = <<>>
    /\ diagnostic = <<>>
    /\ prev = EmptyResult
    /\ calls = 0
    /\ batch = NoRun
    /\ eval = NoEval
    /\ request = NoRequest
    /\ cache = NoCache
    /\ threads = IdleThreads

\* a caller calls validate_device_dhcp with arguments of its choice
CallAny ==
    /\ pc = "idle"
    /\ \E dn \in DeviceNames, ps \in PrimarySubnets,
          v4 \in PublicIPv4Lists, v6 \in PublicIPv6Lists : Call(dn, ps, v4, v6)
    /\ UNCHANGED otherVars

\* the first of two calls with the same arguments
CallFirst ==
    /\ pc = "idle"
    /\ calls = 0
    /\ \E dn \in DeviceNames, ps \in PrimarySubnets,
          v4 \in PublicIPv4Lists, v6 \in PublicIPv6Lists : Call(dn, ps, v4, v6)
    /\ calls' = 1
    /\ UNCHANGED << device, diagnostic, prev, batch, eval, request, cache, threads >>

\* the caller keeps the result and calls again with the same arguments
CallAgain ==
    /\ pc = "done"
    /\ calls = 1
    /\ Call(device_name, primary_subnet, public_ipv4_subnets, public_ipv6_subnets)
    /\ prev' = result
    /\ calls' = 2
    /\ UNCHANGED << device, diagnostic, batch, eval, request, cache, threads >>

\* the registry before a call
RegistryDrift ==
    /\ pc = "idle"
    /\ Toggle
    /\ UNCHANGED << connection, pc, device_name, primary_subnet,
                    public_ipv4_subnets, public_ipv6_subnets, dhcp_scopes,
                    dhcp_ipv6_scopes, dhcp_scopes_retry, dhcp_ipv6_scopes_retry,
                    scope_count, retry_count, result, seen, pauses, changes,
                    otherVars >>

\* the diagnostic runs on a device: diagnostic.set(json.dumps(result))
Diagnose ==
    /\ pc = "idle"
    /\ \E dev \in Devices :
          /\ device' = <<dev>>
          /\ diagnostic' = <<diagnose(dev)>>
    /\ UNCHANGED << registry, connection, pc, device_name, primary_subnet,
                    public_ipv4_subnets, public_ipv6_subnets, dhcp_scopes,
                    dhcp_ipv6_scopes, dhcp_scopes_retry, dhcp_ipv6_scopes_retry,
                    scope_count, retry_count, result, seen, pauses, changes,
                    prev, calls, batch, eval, request, cache, threads >>

\* the discovered primary subnet and subnet lists are reconciled
ReconcileDiscovered ==
    /\ pc = "idle"
    /\ diagnostic # <<>>
    /\ Call(diagnostic[1].device_name, diagnostic[1].primary_subnet,
            diagnostic[1].ipv4_subnets, diagnostic[1].ipv6_subnets)
    /\ UNCHANGED otherVars

Next ==
    \/ Connect
    \/ RegistryDrift
    \/ CallAny
    \/ QueryV4
    \/ QueryV6
    \/ Sleep
    \/ RetryV4
    \/ RetryV6
    \/ RegistryChange

Spec == Init /\ [][Next]_vars

\* two calls with the same arguments on a registry that stands still from
\* the first call on
NextTwice ==
    \/ Connect
    \/ RegistryDrift
    \/ CallFirst
    \/ CallAgain
    \/ QueryV4
    \/ QueryV6
    \/ Sleep
    \/ RetryV4
    \/ RetryV6

SpecTwice == Init /\ [][NextTwice]_vars

\* one run of a batch runner against a registry in any state
NextBatch ==
    \/ RegistryDrift
    \/ StartRun
    \/ DbConnect

SpecBatch == Init /\ [][NextBatch]_vars

\* one call of a library function per behaviour: the functions keep no
\* state, so a call's answer does not depend on the calls before it
NextLibrary ==
    \/ ClassifyIPv4
    \/ ClassifyIPv6
    \/ NormalizeSubnet
    \/ GenerateFeed

SpecLibrary == Init /\ [][NextLibrary]_vars

\* one call of diagnose: on a device without configuration, or on a device
\* with IPv4 address lines
NextDiagnose ==
    \/ SelectDialect
    \/ ExtractSubnets

SpecDiagnose == Init /\ [][NextDiagnose]_vars

\* one call of diagnose on a device with IPv6 address lines or with several
\* interface blocks
NextDiagnoseBlocks ==
    \/ ExtractIPv6Subnets
    \/ ExtractBlock

SpecDiagnoseBlocks == Init /\ [][NextDiagnoseBlocks]_vars

\* discovery followed by reconciliation; the registry holds no private scope
InitE2E ==
    /\ registry = [scopesnew |-> {[scope |-> NetB, primscope |-> NetB]},
                   ipv6scopesnew |-> OtherPrefixRows, up |-> TRUE]
    /\ connection = "closed"
    /\ pc = "idle"
    /\ device_name = None
    /\ primary_subnet = None
    /\ public_ipv4_subnets = <<>>
    /\ public_ipv6_subnets = <<>>
    /\ dhcp_scopes = <<>>
    /\ dhcp_ipv6_scopes = <<>>
    /\ dhcp_scopes_retry = <<>>
    /\ dhcp_ipv6_scopes_retry = <<>>
    /\ scope_count = 0
    /\ retry_count = -1
    /\ result = EmptyResult
    /\ seen = <<>>
    /\ pauses = 0
    /\ changes = 0
    /\ device = <<>>
    /\ diagnostic = <<>>
    /\ prev = EmptyResult
    /\ calls = 0
    /\ batch = NoRun
    /\ eval = NoEval
    /\ request = NoRequest
    /\ cache = NoCache
    /\ threads = IdleThreads

NextE2E ==
    \/ Connect
    \/ RegistryDrift
    \/ Diagnose
    \/ ReconcileDiscovered
    \/ QueryV4
    \/ QueryV6
    \/ Sleep
    \/ RetryV4
    \/ RetryV6

SpecE2E == InitE2E /\ [][NextE2E]_vars

\* the code's steps run to completion once the call is entered
FairSpec ==
    Spec /\ WF_vars(QueryV4 \/ QueryV6 \/ Sleep \/ RetryV4 \/ RetryV6)

\* one call of _make_request
NextRequest ==
    \/ MakeRequest
    \/ Attempt
    \/ EndOfLoop

\* requests.request is given timeout=self.timeout and time.sleep ends, so a
\* pass of the loop that has begun ends
FairSpecRequest ==
    Init /\ [][NextRequest]_vars /\ WF_vars(Attempt) /\ WF_vars(EndOfLoop)

\* the device loop of a runner, from its head to the end of the run
NextDeviceLoop ==
    \/ EnterLoop
    \/ ProcessDevice
    \/ EndRun

SpecDeviceLoop == Init /\ [][NextDeviceLoop]_vars

\* threads that call set, get and delete of CacheManager objects on one
\* directory, while time passes
NextThreads ==
    \/ CallCacheManager
    \/ Acquire
    \/ SetOpenCache
    \/ SetWriteCache
    \/ SetOpenMeta
    \/ SetWriteMeta
    \/ GetExists
    \/ GetMeta
    \/ GetUnlinkCache
    \/ GetUnlinkMeta
    \/ GetRead
    \/ DeleteCache
    \/ DeleteMeta
    \/ Tick

SpecThreads == Init /\ [][NextThreads]_vars

\* calls of get_loopback_interface by one client, one after another, while
\* time passes
NextLoopback ==
    \/ GetLoopback
    \/ Tick

SpecLoopback == Init /\ [][NextLoopback]_vars

\* --------------------------------------------------------------------------
\* What the properties speak about
\* --------------------------------------------------------------------------

Returned == pc = "done"

PrimaryPresent == primary_subnet \notin {None, <<>>}

NumQueries(kind) == Cardinality({i \in 1..Len(seen) : seen[i].query = kind})

RetryRoundRan == Len(seen) = 4

\* the retry round's data is the data the result was built from
RetryAdopted == RetryRoundRan /\ retry_count > scope_count

\* the registry as the IPv4 and the IPv6 query of the deciding round saw it
DecidingV4 == IF RetryAdopted THEN seen[3].registry ELSE seen[1].registry

DecidingV6 == IF RetryAdopted THEN seen[4].registry ELSE seen[2].registry

\* what a registry in state reg serves to the two queries
ServedScopes(reg) ==
    IF reg.up THEN {r \in reg.scopesnew : r.primscope = primary_subnet} ELSE {}

ServedPrefixes(reg) ==
    IF reg.up THEN {r \in reg.ipv6scopesnew : r.hostname = device_name} ELSE {}

\* R: the public scopes filed under the primary, the primary excluded
RegistryScopeSet(reg) ==
    {r.scope : r \in {x \in ServedScopes(reg) :
                        is_public_ipv4(x.scope) /\ x.scope # primary_subnet}}

\* the prefix records the registry holds for the host, as the call saw them
\* if it asked
HostPrefixes ==
    IF Len(seen) >= 2 THEN ServedPrefixes(DecidingV6) ELSE ServedPrefixes(registry)

\* a prefix name without one trailing "-PD"
StripPD(name) ==
    IF Len(name) >= 3 /\ SubSeq(name, Len(name) - 2, Len(name)) = <<"-", "P", "D">>
    THEN SubSeq(name, 1, Len(name) - 3)
    ELSE name

NoDuplicates(list) == Cardinality(Range(list)) = Len(list)

\* --------------------------------------------------------------------------
\* Properties
\* --------------------------------------------------------------------------

\* C2: whenever a call returns hasDHCP = true, matched = D \cap R,
\* missing = D \ R and extra = R \ D, where D is the set of the discovered
\* public IPv4 subnets and R the set of public scopes the registry served
\* for the primary (the primary excluded) in the round the result is built from;
\* hence matched \cup missing = D, matched \cup extra = R, and the three are
\* pairwise disjoint.
C2_SetAlgebra ==
    (Returned /\ result.has_dhcp) =>
        LET D == Range(public_ipv4_subnets)
            R == RegistryScopeSet(DecidingV4)
            matched == Range(result.matched)
            missing == Range(result.missing_in_dhcp)
            extra == Range(result.extra_in_dhcp)
        IN  /\ matched = D \cap R
            /\ missing = D \ R
            /\ extra = R \ D
            /\ matched \cup missing = D
            /\ matched \cup extra = R
            /\ matched \cap missing = {}
            /\ matched \cap extra = {}
            /\ missing \cap extra = {}
            /\ NoDuplicates(result.matched)
            /\ NoDuplicates(result.missing_in_dhcp)
            /\ NoDuplicates(result.extra_in_dhcp)

\* a returned call with a match and a miss, the primary being both discovered
\* and filed in the registry
C2_Witness ==
    /\ Returned
    /\ result.has_dhcp
    /\ result.matched = <<NetA>>
    /\ result.missing_in_dhcp = <<NetP>>
    /\ [scope |-> NetP, primscope |-> NetP] \in DecidingV4.scopesnew
    /\ DecidingV4.up

\* C3: a call issues the IPv4 query and the IPv6 query at most twice each and
\* pauses at most once, a call that has started querying returns, and when
\* the first round counted exactly one scope and the retry round saw the
\* registry as the first round did, the returned dhcpScopeCount is 1.
C3_BoundedRetry ==
    /\ [](/\ NumQueries("ipv4") <= 2
          /\ NumQueries("ipv6") <= 2
          /\ pauses <= 1
          /\ (/\ Returned
              /\ RetryRoundRan
              /\ scope_count = 1
              /\ seen[3].registry = seen[1].registry
              /\ seen[4].registry = seen[2].registry)
             => result.dhcp_scopes_count = 1)
    /\ ((pc = "query_v4") ~> (pc = "done"))

\* a returned call whose two rounds both counted one scope on an unchanged registry
C3_Witness ==
    /\ Returned
    /\ RetryRoundRan
    /\ scope_count = 1
    /\ changes = 0
    /\ NumQueries("ipv4") = 2
    /\ NumQueries("ipv6") = 2
    /\ pauses = 1
    /\ result.dhcp_scopes_count = 1

\* C4: the retry round runs iff the first round counted at most one scope;
\* the retried data replaces the first round's iff the retried count is
\* strictly greater, and the returned count is the larger of the two counts.
C4_RetryRule ==
    /\ (pc \in {"sleep", "retry_v4", "retry_v6"}) => scope_count <= 1
    /\ (Returned /\ PrimaryPresent) =>
          /\ RetryRoundRan <=> scope_count <= 1
          /\ ~RetryRoundRan =>
                /\ Len(seen) = 2
                /\ pauses = 0
                /\ result.dhcp_scopes_count = scope_count
                /\ result.dhcp_scopes = dhcp_scopes
                /\ result.dhcp_ipv6_scopes = dhcp_ipv6_scopes
          /\ RetryRoundRan =>
                /\ pauses = 1
                /\ result.dhcp_scopes_count = Max(scope_count, retry_count)
                /\ retry_count > scope_count =>
                      /\ result.dhcp_scopes = dhcp_scopes_retry
                      /\ result.dhcp_ipv6_scopes = dhcp_ipv6_scopes_retry
                /\ retry_count <= scope_count =>
                      /\ result.dhcp_scopes = dhcp_scopes
                      /\ result.dhcp_ipv6_scopes = dhcp_ipv6_scopes

\* a returned call whose retry found more than the single scope of the first round
C4_Witness ==
    /\ Returned
    /\ RetryRoundRan
    /\ scope_count = 1
    /\ retry_count = 2
    /\ result.dhcp_scopes_count = 2
    /\ result.dhcp_scopes = dhcp_scopes_retry
    /\ dhcp_scopes_retry # dhcp_scopes

\* C5: dhcpScopeCount is the number of public scopes filed under the primary
\* and different from it, plus the number of distinct base names of the
\* host's prefix records, the base name being the prefix name without one
\* trailing "-PD".
C5_ScopeCount ==
    (Returned /\ PrimaryPresent) =>
        result.dhcp_scopes_count =
            Cardinality(RegistryScopeSet(DecidingV4))
            + Cardinality({StripPD(r.prefixname) : r \in ServedPrefixes(DecidingV6)})

\* C6: prefix records dropped as -PD duplicates take no part in the IPv6
\* comparison: ipv6Matched and ipv6MissingInDHCP are computed against the
\* prefix names of the deduplicated representatives.
C6_DedupBeforeCompare ==
    (Returned /\ PrimaryPresent /\ result.dhcp_ipv6_scopes # <<>>) =>
        LET unique == unique_ipv6_scopes(result.dhcp_ipv6_scopes)
            names == {unique[i].prefixname : i \in 1..Len(unique)}
            D6 == Range(public_ipv6_subnets)
        IN  /\ Range(result.ipv6_matched) = D6 \cap names
            /\ Range(result.ipv6_missing_in_dhcp) = D6 \ names

\* C7 as stated: in every returned result hasDHCP iff dhcpScopeCount > 0,
\* without DHCP missingInDHCP is the discovered IPv4 list and matched and
\* extra are empty, and without IPv6 records for the host ipv6MissingInDHCP
\* is the discovered IPv6 list and ipv6Matched is empty.
C7_AsStated ==
    Returned =>
        /\ result.has_dhcp <=> result.dhcp_scopes_count > 0
        /\ ~result.has_dhcp =>
              /\ result.missing_in_dhcp = public_ipv4_subnets
              /\ result.matched = <<>>
              /\ result.extra_in_dhcp = <<>>
        /\ HostPrefixes = {} =>
              /\ result.ipv6_missing_in_dhcp = public_ipv6_subnets
              /\ result.ipv6_matched = <<>>

\* C7 amended: in every returned result hasDHCP iff dhcpScopeCount > 0; in
\* the result of a call whose primary subnet is present, without DHCP
\* missingInDHCP is the discovered IPv4 list and matched and extra are
\* empty, and when the registry served no IPv6 record for the host
\* ipv6MissingInDHCP is the discovered IPv6 list and ipv6Matched is empty.
C7_HasDhcp ==
    Returned =>
        /\ result.has_dhcp <=> result.dhcp_scopes_count > 0
        /\ PrimaryPresent =>
              /\ ~result.has_dhcp =>
                    /\ result.missing_in_dhcp = public_ipv4_subnets
                    /\ result.matched = <<>>
                    /\ result.extra_in_dhcp = <<>>
              /\ HostPrefixes = {} =>
                    /\ result.ipv6_missing_in_dhcp = public_ipv6_subnets
                    /\ result.ipv6_matched = <<>>

\* a call with a primary returns without DHCP and with a duplicated discovered list
C7_Witness ==
    /\ Returned
    /\ PrimaryPresent
    /\ ~result.has_dhcp
    /\ result.missing_in_dhcp = <<NetB, NetB>>
    /\ public_ipv6_subnets = <<Net6, SiteA>>
    /\ result.ipv6_missing_in_dhcp = <<Net6, SiteA>>

\* C8: a call without a primary subnet (None or empty) returns the
\* zero-value result and issues no registry query and no pause.
C8_AbsentPrimary ==
    (Returned /\ primary_subnet \in {None, <<>>}) =>
        /\ ~result.has_dhcp
        /\ result.dhcp_scopes_count = 0
        /\ result.dhcp_scopes = <<>>
        /\ result.dhcp_ipv6_scopes = <<>>
        /\ result.missing_in_dhcp = <<>>
        /\ result.extra_in_dhcp = <<>>
        /\ result.matched = <<>>
        /\ result.ipv6_missing_in_dhcp = <<>>
        /\ result.ipv6_matched = <<>>
        /\ seen = <<>>
        /\ pauses = 0

\* a call with the empty string as primary and discovered subnets has returned
C8_Witness ==
    /\ Returned
    /\ primary_subnet = <<>>
    /\ public_ipv4_subnets = <<NetP, NetA>>
    /\ public_ipv6_subnets # <<>>
    /\ seen = <<>>

\* C9: no query lets an exception escape; a query that finds the registry
\* unreachable, with or without an open connection, returns the empty list,
\* and a call all of whose queries, first round and retry round, found it
\* unreachable returns hasDHCP = false with missingInDHCP the discovered list.
C9_Unavailable ==
    /\ pc # "raised"
    /\ (Len(seen) >= 1 /\ ~seen[1].registry.up) => dhcp_scopes = <<>>
    /\ (Len(seen) >= 2 /\ ~seen[2].registry.up) => dhcp_ipv6_scopes = <<>>
    /\ (Len(seen) >= 3 /\ ~seen[3].registry.up) => dhcp_scopes_retry = <<>>
    /\ (Len(seen) >= 4 /\ ~seen[4].registry.up) => dhcp_ipv6_scopes_retry = <<>>
    /\ (Returned /\ PrimaryPresent /\ \A i \in 1..Len(seen) : ~seen[i].registry.up) =>
          /\ RetryRoundRan
          /\ ~result.has_dhcp
          /\ result.dhcp_scopes_count = 0
          /\ result.missing_in_dhcp = public_ipv4_subnets

\* a call on an open connection whose four queries all failed has returned
C9_Witness ==
    /\ Returned
    /\ PrimaryPresent
    /\ connection = "open"
    /\ RetryRoundRan
    /\ \A i \in 1..4 : ~seen[i].registry.up
    /\ seen[1].registry.scopesnew # OtherScopeRows
    /\ public_ipv4_subnets = <<NetP, NetA>>
    /\ result.missing_in_dhcp = <<NetP, NetA>>

\* the registry of the scenario, at every query of the call: reachable, the
\* only scope filed under 192.0.2.0/24 is 192.0.2.0/24, no prefix for the host
ScenarioRegistry ==
    \A i \in 1..Len(seen) :
        /\ seen[i].registry.up
        /\ {r \in seen[i].registry.scopesnew : r.primscope = NetP}
              = {[scope |-> NetP, primscope |-> NetP]}
        /\ {r \in seen[i].registry.ipv6scopesnew : r.hostname = HostE6000} = {}

ScenarioRan ==
    /\ Returned
    /\ device = <<ScenarioDevice>>
    /\ Len(seen) >= 2
    /\ ScenarioRegistry

\* C1 as stated: for the scenario device discovery yields primarySubnet
\* 192.0.2.0/24 and publicIPv4Subnets [192.0.2.0/24], and reconciling that
\* against the scenario registry returns hasDHCP = true,
\* matchedIPv4 = [192.0.2.0/24] and missingInDHCP = [].
C1_AsStated ==
    ScenarioRan =>
        /\ diagnostic[1].primary_subnet = NetP
        /\ diagnostic[1].ipv4_subnets = <<NetP>>
        /\ result.has_dhcp
        /\ result.matched = <<NetP>>
        /\ result.missing_in_dhcp = <<>>

\* C1 amended: for the scenario device discovery yields primarySubnet
\* 192.0.2.0/24 and publicIPv4Subnets [192.0.2.0/24]; the registry scope
\* equal to the primary is left out, so reconciling against the scenario
\* registry returns hasDHCP = false, dhcpScopeCount = 0, matchedIPv4 = []
\* and missingInDHCP = [192.0.2.0/24].
C1_EndToEnd ==
    ScenarioRan =>
        /\ diagnostic[1].vendor = "Commscope E6000"
        /\ diagnostic[1].found
        /\ diagnostic[1].primary_subnet = NetP
        /\ diagnostic[1].ipv4_subnets = <<NetP>>
        /\ primary_subnet = NetP
        /\ public_ipv4_subnets = <<NetP>>
        /\ ~result.has_dhcp
        /\ result.dhcp_scopes_count = 0
        /\ result.matched = <<>>
        /\ result.extra_in_dhcp = <<>>
        /\ result.missing_in_dhcp = <<NetP>>

\* the scenario has run to its end, retry round included
C1_Witness ==
    /\ ScenarioRan
    /\ RetryRoundRan
    /\ result.dhcp_scopes = << [scope |-> NetP, primscope |-> NetP] >>
    /\ result.missing_in_dhcp = <<NetP>>

\* C10: two calls with the same arguments on a registry that does not change
\* between or during them return equal results, the lists compared as sets,
\* whether or not the retry round runs.
C10_Idempotent ==
    (Returned /\ calls = 2) =>
        /\ result.has_dhcp = prev.has_dhcp
        /\ result.dhcp_scopes_count = prev.dhcp_scopes_count
        /\ result.dhcp_scopes = prev.dhcp_scopes
        /\ result.dhcp_ipv6_scopes = prev.dhcp_ipv6_scopes
        /\ Range(result.matched) = Range(prev.matched)
        /\ Range(result.missing_in_dhcp) = Range(prev.missing_in_dhcp)
        /\ Range(result.extra_in_dhcp) = Range(prev.extra_in_dhcp)
        /\ Range(result.ipv6_matched) = Range(prev.ipv6_matched)
        /\ Range(result.ipv6_missing_in_dhcp) = Range(prev.ipv6_missing_in_dhcp)

\* the second call has returned after a retry round; the first call connected
C10_Witness ==
    /\ Returned
    /\ calls = 2
    /\ RetryRoundRan
    /\ result.has_dhcp
    /\ prev.has_dhcp
    /\ result.matched = <<NetA>>
    /\ result.missing_in_dhcp = <<NetP>>

\* C11: every step of a reconcile call (its entry, its queries, its pause,
\* its retry round) leaves the registry's IPv4-scope records and IPv6-prefix
\* records as they were, so after any sequence of calls they are what they
\* were before the calls.
C11_ReadOnly ==
    [][(pc # "idle" \/ pc' # "idle") =>
          /\ registry'.scopesnew = registry.scopesnew
          /\ registry'.ipv6scopesnew = registry.ipv6scopesnew]_vars

\* two calls have run, the second through its retry round, on a reachable
\* registry that holds a public scope under the primary and prefix records
C11_Witness ==
    /\ Returned
    /\ calls = 2
    /\ RetryRoundRan
    /\ seen[1].registry.up
    /\ connection = "open"
    /\ [scope |-> NetA, primscope |-> NetP] \in registry.scopesnew
    /\ registry.ipv6scopesnew # {}
    /\ result.dhcp_scopes_count = 1

\* the run of a batch runner is over
RunEnded == batch.pc = "ended"

\* the devices of the inventory, by position
Positions == 1..Len(batch.devices)

\* a device with a name, a primary subnet and a DHCP hostname
Eligible(d) == Truthy(d.name) /\ Truthy(d.primary_subnet) /\ Truthy(dhcp_hostname(d))

\* C12: when a run is over, every device whose processing raised has added
\* one to the error count, and every other device that has a name, a primary
\* subnet and a DHCP hostname - before or after a failing one - has its
\* result recorded.
C12_ContinueAfterError ==
    (RunEnded /\ \E i \in Positions : Raises(batch.devices[i])) =>
        /\ batch.error_count = Cardinality({i \in Positions : Raises(batch.devices[i])})
        /\ \A i \in Positions :
              (Eligible(batch.devices[i]) /\ ~Raises(batch.devices[i])) =>
                  \E v \in batch.stored : v.name = batch.devices[i].name

\* C13: when a run is over, for every device that has a name, a primary
\* subnet and a DHCP hostname reconciliation was called exactly once, with
\* the device's DHCP hostname, primary subnet and subnets, and a result is
\* stored under the device's name.
C13_OncePerDevice ==
    RunEnded =>
        \A i \in Positions :
            (Eligible(batch.devices[i]) /\ ~Raises(batch.devices[i])) =>
                /\ Cardinality({j \in 1..Len(batch.reconciled) :
                                    batch.reconciled[j].idx = i}) = 1
                /\ \A j \in 1..Len(batch.reconciled) :
                      batch.reconciled[j].idx = i =>
                          /\ batch.reconciled[j].hostname = dhcp_hostname(batch.devices[i])
                          /\ batch.reconciled[j].primary = batch.devices[i].primary_subnet
                          /\ Range(batch.reconciled[j].ipv4) \cup Range(batch.reconciled[j].ipv6)
                                \subseteq Range(batch.devices[i].subnets)
                /\ \E v \in batch.stored : v.name = batch.devices[i].name

\* the four octets of the address of a well-formed IPv4 text
AddressOf(t) == DottedQuad(Split(t, "/")[1])

\* the address lies in 10.0.0.0/8, 172.16.0.0/12, 192.168.0.0/16 or
\* 198.18.0.0/15
InListedRange(o) ==
    \/ o[1] = 10
    \/ o[1] = 172 /\ o[2] \in 16..31
    \/ o[1] = 192 /\ o[2] = 168
    \/ o[1] = 198 /\ o[2] \in 18..19

\* C14: for a well-formed IPv4 address or CIDR every is_public_ipv4 answers
\* false when the address lies in 10.0.0.0/8, 172.16.0.0/12, 192.168.0.0/16
\* or 198.18.0.0/15, and true otherwise.
C14_ListedRanges ==
    (eval.fn = "is_public_ipv4" /\ eval.subnet \in IPv4Texts) =>
        /\ eval.dhcp_database = ~InListedRange(AddressOf(eval.subnet))
        /\ eval.netshot_diagnostic = ~InListedRange(AddressOf(eval.subnet))
        /\ eval.subnet_utils = ~InListedRange(AddressOf(eval.subnet))

\* the text starts, in either case, with fe80:, fc00: or fd00:
StartsLikeLocal(t) ==
    LET lower == [i \in 1..Len(t) |-> Lower(t[i])]
    IN  \E p \in {<<"f", "e", "8", "0", ":">>, <<"f", "c", "0", "0", ":">>,
                   <<"f", "d", "0", "0", ":">>} :
            Len(lower) >= 5 /\ SubSeq(lower, 1, 5) = p

C16_MalformedPolicy ==
    (eval.fn = "is_public_ipv4" /\ eval.subnet \in MalformedIPv4) =>
        /\ eval.raised = {}
        /\ eval.dhcp_database
        /\ ~eval.subnet_utils
        /\ ~eval.netshot_diagnostic

\* bit i (1 the highest) of a 32-bit value given as four octets
BitOf(octets, i) == (octets[((i - 1) \div 8) + 1] \div Pow2(7 - ((i - 1) % 8))) % 2

\* the dotted text of the value that keeps the p highest bits of the octets
\* and has the low 32 - p bits cleared
LowBitsCleared(octets, p) ==
    LET bit(i) == IF i <= p THEN BitOf(octets, i) ELSE 0
        octet(k) == SumSeq([j \in 1..8 |-> bit(8 * (k - 1) + j) * Pow2(8 - j)])
    IN  Dotted(octet(1), octet(2), octet(3), octet(4))

\* the number of set bits of a dotted mask
SetBits(mask) ==
    LET m == DottedQuad(mask)
    IN  Cardinality({ i \in 1..32 : BitOf(m, i) = 1 })

\* C17: for a host address of four octets 0..255 and a dotted netmask,
\* normalization returns network/p with p the number of set bits of the mask
\* and network the address with its low 32 - p bits cleared, and normalizing
\* that result again returns it unchanged.
C17_Normalization ==
    (/\ eval.fn = "normalize_subnet"
     /\ eval.ip \in HostAddresses
     /\ eval.mask \in Netmasks) =>
        LET p == SetBits(eval.mask)
            expected == LowBitsCleared(DottedQuad(eval.ip), p) \o <<"/">> \o IntToStr(p)
        IN  /\ eval.cidr_prefix = p
            /\ eval.netshot_diagnostic = expected
            /\ eval.netshot_api = expected
            /\ eval.again = expected
            /\ eval.stored = expected

\* 10.254.216.1 with 255.255.255.0 was normalized to 10.254.216.0/24
C17_Witness ==
    /\ eval.fn = "normalize_subnet"
    /\ eval.ip = Dotted(10, 254, 216, 1)
    /\ eval.mask = Dotted(255, 255, 255, 0)
    /\ eval.netshot_diagnostic = Dotted(10, 254, 216, 0) \o <<"/", "2", "4">>
    /\ eval.again = eval.netshot_diagnostic

\* the address or the mask is malformed: not four octets, a non-numeric
\* octet, an octet above 255, or more than 32 set bits
MalformedCall ==
    /\ eval.fn = "normalize_subnet"
    /\ \/ ~IsDottedQuad(eval.ip)
       \/ eval.cidr_prefix = NoInt
       \/ eval.cidr_prefix > 32

\* C18: when the address or the mask is malformed, normalization does not
\* raise and returns the original address/prefix text unmodified.
C18_OriginalOnFailure ==
    MalformedCall =>
        LET original == eval.ip \o <<"/">> \o
                            (IF eval.cidr_prefix = NoInt THEN None
                             ELSE IntToStr(eval.cidr_prefix))
        IN  /\ eval.netshot_diagnostic = original
            /\ eval.netshot_api = original

\* the name holds, in either case, the letters followed by n decimal digits
HasToken(name, letters, n) ==
    \E i \in 1..Len(name) :
        /\ i + Len(letters) + n - 1 <= Len(name)
        /\ \A j \in 1..Len(letters) : Lower(name[i + j - 1]) = letters[j]
        /\ \A j \in 1..n : name[i + Len(letters) + j - 1] \in
                                {"0", "1", "2", "3", "4", "5", "6", "7", "8", "9"}

\* C19: the selection is total and takes the first rule that matches the
\* hostname in either case: CCAP1dd or CBRdd gives Casa 100G with
\* ip-bundle 1, else CCAPVddd gives Commscope EVO with ip-bundle 1, else
\* CCAP0dd or DBRdd gives Commscope E6000 with cable-mac 1.0, and every
\* other hostname gives the generic IOS dialect with Bundle1.
C19_DialectSelection ==
    eval.fn = "diagnose" =>
        LET n == eval.device_name
            casa == HasToken(n, <<"c", "c", "a", "p", "1">>, 2)
                        \/ HasToken(n, <<"c", "b", "r">>, 2)
            evo == HasToken(n, <<"c", "c", "a", "p", "v">>, 3)
            e6000 == HasToken(n, <<"c", "c", "a", "p", "0">>, 2)
                         \/ HasToken(n, <<"d", "b", "r">>, 2)
        IN  /\ eval.result.device_name = n
            /\ casa => /\ eval.result.vendor = "Casa 100G"
                        /\ eval.result.interface = "ip-bundle 1"
            /\ (~casa /\ evo) => /\ eval.result.vendor = "Commscope EVO"
                                  /\ eval.result.interface = "ip-bundle 1"
            /\ (~casa /\ ~evo /\ e6000) =>
                    /\ eval.result.vendor = "Commscope E6000"
                    /\ eval.result.interface = "cable-mac 1.0"
            /\ (~casa /\ ~evo /\ ~e6000) =>
                    /\ eval.result.vendor = "Cisco IOS/IOS-XE"
                    /\ eval.result.interface = "Bundle1"

\* a lower-case Casa name that also holds an E6000 token was selected
C19_Witness ==
    /\ eval.fn = "diagnose"
    /\ eval.device_name = <<"Z", "N", "B", "-", "c", "c", "a", "p", "1", "0", "5", "-", "D", "B", "R", "0", "7">>
    /\ eval.result.vendor = "Casa 100G"
    /\ eval.result.interface = "ip-bundle 1"

\* the `ip address` lines of a configuration, in its order
AddressLinesOf(config) == SelectSeq(config, LAMBDA l : l.kind \in {"ipv4", "e6000_ipv4"})

\* the normalized CIDR of an address line
CidrOf(l) ==
    LowBitsCleared(DottedQuad(l.ip), SetBits(l.mask)) \o <<"/">> \o IntToStr(SetBits(l.mask))

\* C20: after extraction primary_subnet is the normalized CIDR of the first
\* `ip address` line without `secondary`, public or not, and ipv4_subnets
\* holds in order exactly the normalized CIDRs of the lines whose address is
\* public (outside 10.0.0.0/8, 172.16.0.0/12, 192.168.0.0/16, 198.18.0.0/15).
C20_Extraction ==
    eval.fn = "extract_ipv4_subnets" =>
        LET lines == AddressLinesOf(eval.device.runningConfig)
            first == SelectSeq(lines, LAMBDA l : ~l.secondary)
            public == SelectSeq(lines, LAMBDA l : ~InListedRange(DottedQuad(l.ip)))
        IN  /\ first # <<>> => eval.result.primary_subnet = CidrOf(first[1])
            /\ eval.result.ipv4_subnets = [i \in 1..Len(public) |-> CidrOf(public[i])]

\* the `ipv6 address` lines of a configuration, in its order
IPv6LinesOf(config) == SelectSeq(config, LAMBDA l : l.kind \in {"ipv6", "e6000_ipv6"})

\* C21: every IPv6 address/prefix token of prefix length 56 is emitted with
\* prefix length 40 and every other token keeps its prefix length, so no
\* subnet of ipv6_subnets has prefix length 56, under both extraction
\* strategies.
C21_Rewrite56 ==
    eval.fn = "extract_ipv6_subnets" =>
        LET public == SelectSeq(IPv6LinesOf(eval.device.runningConfig),
                                LAMBDA l : ~StartsLikeLocal(l.ip))
            emitted(l) == l.ip \o <<"/">> \o
                              (IF l.mask = <<"5", "6">> THEN <<"4", "0">> ELSE l.mask)
        IN  /\ eval.result.ipv6_subnets = [i \in 1..Len(public) |-> emitted(public[i])]
            /\ \A i \in 1..Len(eval.result.ipv6_subnets) :
                   Split(eval.result.ipv6_subnets[i], "/")[2] # <<"5", "6">>

\* a Casa block with a /56 and a /64 line was extracted
C21_Witness ==
    /\ eval.fn = "extract_ipv6_subnets"
    /\ eval.device.name = HostCasa
    /\ Len(eval.device.runningConfig) = 4
    /\ eval.device.runningConfig[2].mask = <<"5", "6">>
    /\ eval.device.runningConfig[3].mask = <<"6", "4">>
    /\ eval.result.ipv6_subnets = << Addr6 \o <<"/", "4", "0">>, Addr6 \o <<"/", "6", "4">> >>

\* C22: in every result of diagnose found is true iff ipv4_subnets or
\* ipv6_subnets is non-empty; for an empty or missing configuration found is
\* false, both lists are empty and there is no primary_subnet, while vendor
\* and interface are those the hostname selects.
C22_Found ==
    /\ eval.fn \in {"diagnose", "extract_ipv4_subnets", "extract_ipv6_subnets",
                    "diagnose_block"} =>
           eval.result.found = (eval.result.ipv4_subnets # <<>>
                                    \/ eval.result.ipv6_subnets # <<>>)
    /\ eval.fn = "diagnose" =>
           /\ ~eval.result.found
           /\ eval.result.ipv4_subnets = <<>>
           /\ eval.result.ipv6_subnets = <<>>
           /\ eval.result.primary_subnet = None
           /\ eval.result.vendor = DetectVendor(eval.device_name).vendor
           /\ eval.result.interface = DetectVendor(eval.device_name).interface

\* a Commscope EVO without configuration was diagnosed
C22_Witness ==
    /\ eval.fn = "diagnose"
    /\ eval.device_name = <<"C", "C", "A", "P", "V", "1", "2", "3">>
    /\ eval.result.vendor = "Commscope EVO"
    /\ ~eval.result.found

\* the address lines of the first block of a configuration that begins with
\* `interface <name>` and ends at the next interface command or bare "!";
\* none when the configuration has no such block
OwnBlock(config, name) ==
    LET starts == { i \in 1..Len(config) :
                      config[i].kind = "interface" /\ config[i].name = name }
    IN  IF starts = {} THEN <<>>
        ELSE LET i == CHOOSE x \in starts : \A y \in starts : x <= y
                 stop == { j \in (i + 1)..Len(config) :
                             config[j].kind \in {"interface", "bang"} }
                 last == IF stop = {} THEN Len(config)
                         ELSE (CHOOSE x \in stop : \A y \in stop : x <= y) - 1
             IN  AddressLinesOf(SubSeq(config, i + 1, last))

\* C23: for a block-strategy dialect the primary_subnet and every subnet of
\* the result come only from the address lines inside the first block that
\* begins with the dialect's own interface command and ends at the next
\* interface command or bare "!"; without such a block found is false and
\* the lists are empty, whatever other interfaces carry.
C23_OwnBlockOnly ==
    eval.fn = "diagnose_block" =>
        LET lines == OwnBlock(eval.device.runningConfig,
                              IF eval.result.interface = "ip-bundle 1"
                              THEN IpBundle1 ELSE Bundle1)
            public == SelectSeq(lines, LAMBDA l : ~InListedRange(DottedQuad(l.ip)))
        IN  /\ eval.result.ipv4_subnets = [i \in 1..Len(public) |-> CidrOf(public[i])]
            /\ eval.result.ipv6_subnets = <<>>
            /\ eval.result.primary_subnet =
                   (IF lines = <<>> THEN None ELSE CidrOf(lines[1]))
            /\ eval.result.found = (public # <<>>)

\* C24: every Network element written for a CMTS target is a subnet that
\* both Netshot and the registry hold for the device, and for a PE device
\* every discovered subnet is written.
C24_FeedIsIntersection ==
    eval.fn = "generate_xml" =>
        /\ eval.device_type = "CMTS" =>
               Range(eval.networks) \subseteq Range(eval.subnets) \cap eval.mysql
        /\ eval.device_type = "PE" =>
               \A i \in 1..Len(eval.subnets) :
                   validate_ip_address(eval.subnets[i]) =>
                       eval.subnets[i] \in Range(eval.networks)

\* what holds of a call of _make_request at every moment
C25_Safe ==
    request.pc \in {"loop", "returned"} =>
        LET n == Len(request.responses)
            ok(r) == r.exc = "none" /\ r.status_code < 400
            retryable(r) == \/ r.exc = "none" /\ r.status_code >= 500
                            \/ r.exc \in {"Timeout", "ConnectionError"}
        IN  /\ n <= request.max_retries
            /\ \A i \in 1..(n - 1) : retryable(request.responses[i])
            /\ request.sleeps = [i \in 1..(n - 1) |-> Pow2(i - 1)]
            /\ request.pc = "returned" =>
                   IF n > 0 /\ ok(request.responses[n])
                   THEN request.returned \in {"payload", "{}"}
                   ELSE /\ request.returned = "None"
                        /\ (n > 0 /\ retryable(request.responses[n])) =>
                               n = request.max_retries
            /\ request.pc = "loop" => request.returned = "unset"

\* C25: _make_request makes at most max_retries HTTP attempts and always
\* returns: a 4xx response ends the call with None and no retry, a 5xx
\* response, a timeout or a connection error is retried after a wait of 1 s,
\* 2 s, ... and the call returns None once the last attempt has failed, and
\* a successful attempt returns its payload with no further attempt.
C25_Retries ==
    /\ []C25_Safe
    /\ (request.pc = "loop") ~> (request.pc = "returned")

\* three attempts failed with retryable errors, after waits of 1 s and 2 s
C25_Witness ==
    /\ request.pc = "returned"
    /\ request.max_retries = 3
    /\ Len(request.responses) = 3
    /\ request.responses[3].status_code = 500
    /\ request.sleeps = <<1, 2>>
    /\ request.returned = "None"


\* C26: with caching enabled, once a call of get_loopback_interface has found
\* no loopback for a device and stored None, a call for the same device
\* within the hour and without force_refresh sends no request and returns
\* None.
C26_NoneAnsweredFromCache ==
    ( /\ eval.fn = "get_loopback_interface"
      /\ eval.use_cache
      /\ ~eval.force_refresh
      /\ eval.none_cached_before # -1
      /\ eval.at <= eval.none_cached_before + 3600 )
    => (eval.requests = 0 /\ eval.result = "None")


\* C27: when threads run set, get and delete on one key, each through a
\* CacheManager of its own or a shared one, every get returns the default
\* or a value that some set wrote completely, and the clean-up of an expired
\* entry never removes an entry that a set has written with a fresh expiry.
C27_ThreadSafe ==
    \A t \in Threads :
        /\ (threads[t].op = "get" /\ threads[t].pc = "returned")
               => threads[t].returned \in ({"None"} \cup cache.written)
        /\ ~threads[t].removed_fresh


\* C28: when the retry round of a call ran, whether or not the registry
\* changed in between, every part of the result comes from one round: the
\* rows of dhcp_scopes and dhcp_ipv6_scopes, dhcp_scopes_count, and the
\* matched, missing, extra and IPv6 lists are all those of the retry round
\* if it was adopted and all those of the first round otherwise.
C28_SingleRound ==
    (Returned /\ PrimaryPresent /\ RetryRoundRan) =>
        LET rows == ServedScopes(DecidingV4)
            prefixes == ServedPrefixes(DecidingV6)
            R == RegistryScopeSet(DecidingV4)
            names == {r.prefixname : r \in prefixes}
            D == Range(public_ipv4_subnets)
            D6 == Range(public_ipv6_subnets)
        IN  /\ Range(result.dhcp_scopes) = rows
            /\ Range(result.dhcp_ipv6_scopes) = prefixes
            /\ result.dhcp_scopes_count
                  = Cardinality(R) + Cardinality({base_prefix(n) : n \in names})
            /\ IF result.has_dhcp
               THEN /\ Range(result.matched) = D \cap R
                    /\ Range(result.missing_in_dhcp) = D \ R
                    /\ Range(result.extra_in_dhcp) = R \ D
               ELSE /\ result.matched = <<>>
                    /\ result.missing_in_dhcp = public_ipv4_subnets
                    /\ result.extra_in_dhcp = <<>>
            /\ IF prefixes # {}
               THEN /\ Range(result.ipv6_matched) = D6 \cap names
                    /\ Range(result.ipv6_missing_in_dhcp) = D6 \ names
               ELSE /\ result.ipv6_matched = <<>>
                    /\ result.ipv6_missing_in_dhcp = public_ipv6_subnets

\* a returned call whose retry round was adopted after the registry had
\* changed since the first round, and whose rounds served different rows
C28_Witness ==
    /\ Returned
    /\ PrimaryPresent
    /\ RetryAdopted
    /\ changes > 0
    /\ ServedScopes(seen[3].registry) # ServedScopes(seen[1].registry)
    /\ ServedScopes(seen[1].registry) # {}


\* C29: in every returned result the primary subnet is neither in matched
\* nor in extra_in_dhcp, also when the registry files a scope equal to the
\* primary under it and the primary is itself one of the discovered public
\* IPv4 subnets.
C29_PrimaryExcluded ==
    Returned =>
        /\ primary_subnet \notin Range(result.matched)
        /\ primary_subnet \notin Range(result.extra_in_dhcp)

\* a returned call with the primary at the head of the discovered subnets and
\* served by the registry as a scope of its own, next to a matched scope
C29_Witness ==
    /\ Returned
    /\ PrimaryPresent
    /\ Head(public_ipv4_subnets \o <<None>>) = primary_subnet
    /\ \E r \in ServedScopes(DecidingV4) : r.scope = primary_subnet
    /\ result.has_dhcp
    /\ result.matched # <<>>


====
